---- MODULE Spec2Model ----
(***************************************************************************)
(* chat-server: the message store, the send handlers, the read index and  *)
(* the broadcast hub with its per-connection event loops.                 *)
(***************************************************************************)
EXTENDS FiniteSets, Integers, Sequences, TLC

(***************************************************************************)
(* Bounds and the small universes the requests are drawn from.            *)
(***************************************************************************)
\* the store accepts sends while fewer than MaxMsgs messages were appended
MaxMsgs == 3
\* sends accepted in the runs with streaming connections or acknowledgements
MaxLiveMsgs == 2
\* the page sizes the pagination walk is tried with are 1..MaxLimit
MaxLimit == 2
\* records a store holds when it is opened, in the runs that start from a
\* store written earlier
MaxStored == 3
\* sends accepted in the runs where two handlers race with acknowledgements
MaxRaceMsgs == 1
\* events the broadcast channel retains for a receiver that has fallen behind
\* (broadcast::channel(128) in AppState::new, scaled to the sends of a run)
HubCapacity == 1

\* friend requests made in a run
MaxRequests == 2

\* the life of a token and of an idle cache entry (auth.rs SECOND_TO_EXPIRED,
\* 300 seconds), in ticks of the clock
SECOND_TO_EXPIRED == 2

\* the last tick of the clock
MaxClock == 3

\* the last id that the table user_group_rel hands out in a run
MaxRelId == 4

\* registered users (user.id), all with status NORMAL
Users == {1, 2, 3}
\* the ids of the table group: group 1 exists from the start, group 2 is the
\* one that create inserts
Groups == {1, 2}
\* request-handling tasks that may be in flight at the same time
Tasks == {1, 2}
\* streaming connections (one event_loop task each)
Sessions == {1, 2}
\* message bodies a client sends (SendMsgReq.msg, validated non-blank)
Contents == {"hi"}

\* Option::None of an i64 message id (ids handed out by the store are >= 1)
NoMid == 0
\* Option::None of an i32 target id
NoId == 0

VARIABLES
    msg_db,       \* AppState.msg_db: [seq, log] behind one mutex, and its poison flag
    read_index,   \* table read_index: set of rows
    user_group_rel, \* table user_group_rel: set of rows
    friends,      \* dgraph friend edges: set of two-element sets of user ids
    hub,          \* every event the broadcast channel accepted, oldest first
    sess,         \* per connection: the event_loop task and its receiver
    tasks,        \* per request task: position in its handler and its locals
    sent,         \* history: one entry per append of send_msg, in append order
    page,         \* a client's pagination walk over one conversation
    unread,       \* the last call of count_unread_msg: its row and its result
    reply,        \* the last history query or batch lookup: the call and its result
    friend_request, \* table friend_request: set of rows
    user,         \* table user: the password of every user
    LOGIN_USER,   \* auth.rs LOGIN_USER: per user id, the cached token and its last access
    now,          \* the clock, in units of which a token lives SECOND_TO_EXPIRED
    calls,        \* per request task of the token api: position and the token it carries
    issued,       \* history: every token handed out by login or renew
    ended,        \* history: the users who logged out or changed their password
                  \* and have not logged in since
    revoked,      \* history: the tokens handed out before a logout or password
                  \* change of their user, and not handed out again since
    group,        \* table group: the ids of the groups that exist
    auto_increment \* the next id of the tables group and user_group_rel

\* the friend requests, the sessions and the groups
acct == <<friend_request, user, LOGIN_USER, now, calls, issued, ended, revoked, group,
          auto_increment>>

vars == <<msg_db, read_index, user_group_rel, friends, hub, sess, tasks, sent, page, unread, reply,
          acct>>

(***************************************************************************)
(* Sequence helpers.                                                      *)
(***************************************************************************)
Reverse(s) == [i \in 1..Len(s) |-> s[Len(s) + 1 - i]]

Take(s, n) == SubSeq(s, 1, IF n < Len(s) THEN n ELSE Len(s))

Min2(a, b) == IF a <= b THEN a ELSE b

Max2(a, b) == IF a <= b THEN b ELSE a

RECURSIVE Filter(_, _)
\* the entries of s that lie in the set keep, in order
Filter(s, keep) ==
    IF s = <<>> THEN <<>>
    ELSE IF Head(s) \in keep THEN <<Head(s)>> \o Filter(Tail(s), keep)
         ELSE Filter(Tail(s), keep)

SeqRange(s) == {s[i] : i \in 1..Len(s)}

\* Option<T>
None == <<>>

Some(x) == <<x>>

\* the characters of the decimal digits
Digits == <<"0", "1", "2", "3", "4", "5", "6", "7", "8", "9">>

RECURSIVE DecimalString(_)
\* Display of an unsigned integer: its decimal digits, most significant first
DecimalString(n) ==
    IF n < 10 THEN <<Digits[n + 1]>>
    ELSE DecimalString(n \div 10) \o <<Digits[(n % 10) + 1]>>

(***************************************************************************)
(* Message payloads and their wire form.                                  *)
(***************************************************************************)
MessageTargetUser(uid) == [kind |-> "User", id |-> uid]

MessageTargetGroup(gid) == [kind |-> "Group", id |-> gid]

\* SendMsgReq::build_payload (created_at is the wall clock and is left out)
build_payload(msg, from_uid, message_target) ==
    [from_uid |-> from_uid, target |-> message_target, content |-> msg]

\* serde_json::to_vec(&payload): the bytes are the field values in order
to_vec(payload) ==
    <<payload.from_uid, payload.target.kind, payload.target.id, payload.content>>

\* whether serde_json::from_slice::<ChatMessagePayload> accepts the bytes
Decodable(bytes) ==
    /\ Len(bytes) = 4
    /\ bytes[2] \in {"User", "Group"}

\* serde_json::from_slice::<ChatMessagePayload>(&msg) of decodable bytes
from_slice(bytes) ==
    [from_uid |-> bytes[1],
     target |-> [kind |-> bytes[2], id |-> bytes[3]],
     content |-> bytes[4]]

ChatMessage(mid, payload) == [mid |-> mid, payload |-> payload]

(***************************************************************************)
(* The embedded message store (crate msg).                                *)
(***************************************************************************)
\* msg_db.lock().unwrap() hands out the guard unless the mutex is poisoned
Lockable(db) == ~db.poisoned

\* canonical, order-independent key of a DM pair
DmKey(a, b) == <<"dm", Min2(a, b), Max2(a, b)>>

GroupKey(gid) == <<"group", gid, gid>>

\* one atomic append under the next id of the store-wide sequence, indexed
\* by partition and by the users the message is addressed to or from
StoreAppend(db, key, users, data) ==
    [db |-> [db EXCEPT !.seq = db.seq + 1,
                       !.log = Append(db.log, [mid |-> db.seq + 1, key |-> key,
                                               users |-> users, data |-> data])],
     mid |-> db.seq + 1]

send_to_dm(db, from, to, data) == StoreAppend(db, DmKey(from, to), {from, to}, data)

send_to_group(db, gid, member_ids, data) ==
    StoreAppend(db, GroupKey(gid), member_ids, data)

\* the cross-conversation feed of one user above the cursor, oldest first
fetch_user_messages_after(db, user_id, after, limit) ==
    LET keep == {e \in SeqRange(db.log) :
                    /\ user_id \in e.users
                    /\ (after = NoMid \/ e.mid > after)}
        asc == Filter(db.log, keep)
    IN [i \in 1..Len(Take(asc, limit)) |-> <<asc[i].mid, asc[i].data>>]

\* the entries of one partition below the cursor, newest first, at most limit
FetchBefore(db, key, before, limit) ==
    LET keep == {e \in SeqRange(db.log) :
                    /\ e.key = key
                    /\ (before = NoMid \/ e.mid < before)}
        asc == Filter(db.log, keep)
        desc == Reverse(asc)
    IN [i \in 1..Len(Take(desc, limit)) |-> <<desc[i].mid, desc[i].data>>]

fetch_dm_messages_before(db, a, b, before, limit) ==
    FetchBefore(db, DmKey(a, b), before, limit)

fetch_group_messages_before(db, gid, before, limit) ==
    FetchBefore(db, GroupKey(gid), before, limit)

\* direct lookup by id: the stored bytes, None if there is no such message
get(db, mid) ==
    IF \E e \in SeqRange(db.log) : e.mid = mid
    THEN Some((CHOOSE e \in SeqRange(db.log) : e.mid = mid).data)
    ELSE None

\* how many entries of one partition lie above the id after; 0 if the
\* partition is empty or holds no entry with that id
CountAfter(db, key, after) ==
    IF \E e \in SeqRange(db.log) : e.key = key /\ e.mid = after
    THEN Cardinality({e \in SeqRange(db.log) : e.key = key /\ e.mid > after})
    ELSE 0

count_dm_messages_after(db, from, to, after) == CountAfter(db, DmKey(from, to), after)

count_group_messages_after(db, gid, after) == CountAfter(db, GroupKey(gid), after)

(***************************************************************************)
(* message.rs: the messaging layer over the store.                        *)
(***************************************************************************)
\* variant: the DM branch passes the target's id for both participants
send_msg_store_to_uid(db, payload, uids) ==
    IF payload.target.kind = "User"
    THEN send_to_dm(db, payload.target.id, payload.target.id, to_vec(payload))
    ELSE send_to_group(db, payload.target.id, uids, to_vec(payload))

\* variant: the Group branch appends a second copy for a group of several members
send_msg_store_per_member(db, payload, uids) ==
    IF payload.target.kind = "User"
    THEN send_to_dm(db, payload.from_uid, payload.target.id, to_vec(payload))
    ELSE LET r == send_to_group(db, payload.target.id, uids, to_vec(payload))
         IN IF Cardinality(uids) >= 2
            THEN send_to_group(r.db, payload.target.id, uids, to_vec(payload))
            ELSE r

\* send_msg, the store call: which partition the payload is appended to
send_msg_store(db, payload, uids) ==
    IF payload.target.kind = "User"
    THEN send_to_dm(db, payload.from_uid, payload.target.id, to_vec(payload))
    ELSE send_to_group(db, payload.target.id, uids, to_vec(payload))

\* variant: the sender's id is handed back in place of the store's id
send_msg_result_from_uid(r, payload) == payload.from_uid

\* send_msg, the value handed back to the caller: Ok(mid)
send_msg_result(r, payload) == r.mid

\* variant: the DM branch leaves the counterpart out of the targets
send_msg_event_sender_only(payload, mid, uids) ==
    [targets |-> IF payload.target.kind = "User" THEN {payload.from_uid} ELSE uids,
     message |-> ChatMessage(mid, payload)]

\* send_msg, the event handed to event_sender.send
send_msg_event(payload, mid, uids) ==
    [targets |-> IF payload.target.kind = "User"
                 THEN {payload.from_uid, payload.target.id}
                 ELSE uids,
     message |-> ChatMessage(mid, payload)]

\* variant: the conversion stops at the first record that cannot be decoded
build_chat_messages_until_error(msgs) ==
    LET bad == {i \in 1..Len(msgs) : ~Decodable(msgs[i][2])}
        n == IF bad = {} THEN Len(msgs) ELSE (CHOOSE i \in bad : \A j \in bad : i <= j) - 1
    IN [i \in 1..n |-> ChatMessage(msgs[i][1], from_slice(msgs[i][2]))]

RECURSIVE build_chat_messages(_)
\* filter_map over the fetched (mid, bytes): undecodable records are skipped
build_chat_messages(msgs) ==
    IF msgs = <<>> THEN <<>>
    ELSE LET mid == Head(msgs)[1]
             msg == Head(msgs)[2]
         IN IF Decodable(msg)
            THEN <<ChatMessage(mid, from_slice(msg))>> \o build_chat_messages(Tail(msgs))
            ELSE build_chat_messages(Tail(msgs))

HistoryMsgUser(from_id, to_id, before, limit) ==
    [kind |-> "User", a |-> from_id, b |-> to_id, before |-> before, limit |-> limit]

HistoryMsgGroup(gid, before, limit) ==
    [kind |-> "Group", a |-> gid, b |-> gid, before |-> before, limit |-> limit]

\* variant: the DM branch passes from_id for both participants
get_history_msg_from_id_twice(db, req) ==
    IF req.kind = "User"
    THEN build_chat_messages(fetch_dm_messages_before(db, req.a, req.a, req.before, req.limit))
    ELSE build_chat_messages(fetch_group_messages_before(db, req.a, req.before, req.limit))

\* variant: the batch is handed back oldest first
get_history_msg_oldest_first(db, req) ==
    IF req.kind = "User"
    THEN Reverse(build_chat_messages(
             fetch_dm_messages_before(db, req.a, req.b, req.before, req.limit)))
    ELSE Reverse(build_chat_messages(
             fetch_group_messages_before(db, req.a, req.before, req.limit)))

\* variant: the cursor is not handed to the store
get_history_msg_no_cursor(db, req) ==
    IF req.kind = "User"
    THEN build_chat_messages(fetch_dm_messages_before(db, req.a, req.b, NoMid, req.limit))
    ELSE build_chat_messages(fetch_group_messages_before(db, req.a, NoMid, req.limit))

\* get_history_msg: a store error is swallowed into an empty list
get_history_msg(db, req) ==
    IF req.kind = "User"
    THEN build_chat_messages(fetch_dm_messages_before(db, req.a, req.b, req.before, req.limit))
    ELSE build_chat_messages(fetch_group_messages_before(db, req.a, req.before, req.limit))

\* get_history_msg with a fetch that may fail: `.ok()` turns the store's error
\* into None, and None is answered with vec![]
get_history_msg_io(db, req, io_err) ==
    IF io_err THEN <<>> ELSE get_history_msg(db, req)

RECURSIVE get_by_mids(_, _, _)
\* get_by_mids: one call of the store's get per element of mids, the i-th of
\* which fails if errs[i]; `.ok().flatten()` drops a failed call like a
\* missing id, the second filter_map drops what cannot be decoded
get_by_mids(db, mids, errs) ==
    IF mids = <<>> THEN <<>>
    ELSE LET mid == Head(mids)
             msg == IF Head(errs) THEN None ELSE get(db, mid)
         IN IF msg # None /\ Decodable(msg[1])
            THEN <<ChatMessage(mid, from_slice(msg[1]))>>
                     \o get_by_mids(db, Tail(mids), Tail(errs))
            ELSE get_by_mids(db, Tail(mids), Tail(errs))

UnReadALL == [kind |-> "ALL", count |-> 0]

UnReadPart(count) == [kind |-> "Part", count |-> count]

\* impl Display for UnRead
UnRead_to_string(u) ==
    IF u.kind = "ALL" THEN <<"a", "l", "l">> ELSE DecimalString(u.count)

\* variant: the never-read case counts the whole partition
count_group_unread_counts_all(db, gid, mid, io_err) ==
    IF Cardinality({e \in SeqRange(db.log) : e.key = GroupKey(gid)}) > 0
    THEN Some(UnReadPart(Cardinality({e \in SeqRange(db.log) : e.key = GroupKey(gid)})))
    ELSE None

\* io_err: the store's count_group_messages_after returns Err, which the arm
\* `_ => None` reports like a count of zero; without an acknowledged id the
\* store is not called
count_group_unread(db, gid, mid, io_err) ==
    IF mid = NoMid THEN Some(UnReadALL)
    ELSE IF io_err THEN None
    ELSE LET count == count_group_messages_after(db, gid, mid)
         IN IF count > 0 THEN Some(UnReadPart(count)) ELSE None

\* io_err: the store's count_dm_messages_after returns Err
count_dm_unread(db, from_uid, to_uid, mid, io_err) ==
    IF mid = NoMid THEN Some(UnReadALL)
    ELSE IF io_err THEN None
    ELSE LET count == count_dm_messages_after(db, from_uid, to_uid, mid)
         IN IF count > 0 THEN Some(UnReadPart(count)) ELSE None

(***************************************************************************)
(* group.rs: membership.                                                  *)
(***************************************************************************)
\* get_uids: the user ids of the group's user_group_rel rows
get_uids(rel, gid) == {r.user_id : r \in {x \in rel : x.group_id = gid}}

\* check_status: CheckStatus { in_group, forbid }
check_status(rel, gid, uid) ==
    LET t == {x \in rel : x.group_id = gid /\ x.user_id = uid}
    IN [in_group |-> t # {},
        forbid |-> IF t = {} THEN TRUE ELSE \E x \in t : x.forbid]

\* dgraph::is_friend: friend_id is in the friend list of the user
dgraph_is_friend(edges, me, friend_id) == {me, friend_id} \in edges

\* friend::is_friend: dgraph::is_friend, false if the graph cannot be asked
is_friend(edges, me, uid) == dgraph_is_friend(edges, me, uid)

(***************************************************************************)
(* read_index.rs: the upserts of set_read_index.                          *)
(***************************************************************************)
\* variant: no unique index, nothing ever conflicts
Conflict_none(table, row, col) == {}

\* the row that conflicts with row on (uid, target_uid) or (uid, target_gid)
Conflict(table, row, col) ==
    {r \in table :
        /\ r.uid = row.uid
        /\ IF col = "target_uid"
           THEN r.target_uid # NoId /\ r.target_uid = row.target_uid
           ELSE r.target_gid # NoId /\ r.target_gid = row.target_gid}

\* INSERT ... ON CONFLICT (uid, col) DO UPDATE SET the listed columns
InsertOnConflict(table, row, col, with_mid) ==
    LET hit == Conflict(table, row, col)
    IN IF hit = {}
       THEN table \union {row}
       ELSE (table \ hit) \union
            {[r EXCEPT !.mid = IF with_mid THEN row.mid ELSE @,
                       !.latest_mid = row.latest_mid,
                       !.uid_of_latest_msg = row.uid_of_latest_msg] : r \in hit}

RECURSIVE InsertManyOnConflict(_, _, _, _)
InsertManyOnConflict(table, rows, col, with_mid) ==
    IF rows = {} THEN table
    ELSE LET row == CHOOSE r \in rows : TRUE
         IN InsertManyOnConflict(InsertOnConflict(table, row, col, with_mid),
                                 rows \ {row}, col, with_mid)

\* first ActiveModel of either branch: the acting user's own row
OwnRow(uid, kind, target, mid) ==
    [uid |-> uid,
     target_uid |-> IF kind = "User" THEN target ELSE NoId,
     target_gid |-> IF kind = "User" THEN NoId ELSE target,
     mid |-> mid, latest_mid |-> mid, uid_of_latest_msg |-> uid]

\* second ActiveModel of the User branch: the counterpart's row
PeerRow(uid, target_uid, mid) ==
    [uid |-> target_uid, target_uid |-> uid, target_gid |-> NoId,
     mid |-> NoMid, latest_mid |-> mid, uid_of_latest_msg |-> uid]

\* ActiveModels of the Group branch: one per user id get_uids returned
MemberRows(uid, target_gid, mid, uids) ==
    {[uid |-> rest_uid_of_group, target_uid |-> NoId, target_gid |-> target_gid,
      mid |-> NoMid, latest_mid |-> mid, uid_of_latest_msg |-> uid] :
        rest_uid_of_group \in uids}

set_read_index_own(table, uid, kind, target, mid) ==
    InsertOnConflict(table, OwnRow(uid, kind, target, mid),
                     IF kind = "User" THEN "target_uid" ELSE "target_gid", TRUE)

\* variant: the counterpart's upsert also updates the Mid column
set_read_index_peer_with_mid(table, uid, target_uid, mid) ==
    InsertOnConflict(table, PeerRow(uid, target_uid, mid), "target_uid", TRUE)

set_read_index_peer(table, uid, target_uid, mid) ==
    InsertOnConflict(table, PeerRow(uid, target_uid, mid), "target_uid", FALSE)

\* variant: the members' upsert also updates the Mid column
set_read_index_members_with_mid(table, uid, target_gid, mid, uids) ==
    InsertManyOnConflict(table, MemberRows(uid, target_gid, mid, uids), "target_gid", TRUE)

set_read_index_members(table, uid, target_gid, mid, uids) ==
    InsertManyOnConflict(table, MemberRows(uid, target_gid, mid, uids), "target_gid", FALSE)

\* Option::map(|c| c.to_string())
map_to_string(o) == IF o = None THEN None ELSE Some(UnRead_to_string(o[1]))

\* count_unread_msg: the unread descriptor of one read-index row
count_unread_msg(ri, db, io_err) ==
    IF ri.target_uid # NoId /\ ri.target_gid = NoId
    THEN map_to_string(count_dm_unread(db, ri.uid, ri.target_uid, ri.mid, io_err))
    ELSE IF ri.target_uid = NoId /\ ri.target_gid # NoId
         THEN map_to_string(count_group_unread(db, ri.target_gid, ri.mid, io_err))
         ELSE None

(***************************************************************************)
(* Initial state: an empty store and hub, no read-index row, group 1 with *)
(* members 1 and 2, friend edges 1-2 and 2-3.                             *)
(***************************************************************************)
IdleTask ==
    [pc |-> "idle", kind |-> "User", uid |-> NoId, target |-> NoId,
     content |-> "", mid |-> NoMid, uids |-> {}]

FreeSession ==
    [st |-> "free", uid |-> NoId, from |-> 0, pos |-> 0, open |-> FALSE, pushed |-> <<>>]

IdlePage == [st |-> "idle", req |-> HistoryMsgGroup(NoId, NoMid, 0), seq |-> 0, acc |-> <<>>]

\* a request task of the token or friend api that is not running
IdleCall ==
    [pc |-> "idle", jwt |-> None, password |-> "", uid |-> NoId, target |-> NoId,
     status |-> "", row |-> None, token |-> None]

\* no friend request yet, every user with the first password, nobody logged in
InitAcct ==
    /\ friend_request = {}
    /\ user = [u \in Users |-> [password |-> "a"]]
    /\ LOGIN_USER = [u \in Users |-> None]
    /\ now = 0
    /\ calls = [t \in Tasks |-> IdleCall]
    /\ issued = {}
    /\ ended = {}
    /\ revoked = {}
    /\ group = {1}
    /\ auto_increment = [group |-> 2, user_group_rel |-> 3]

Init ==
    /\ msg_db = [seq |-> 0, log |-> <<>>, poisoned |-> FALSE]
    /\ read_index = {}
    /\ user_group_rel = {[id |-> u, group_id |-> 1, user_id |-> u, forbid |-> FALSE] : u \in {1, 2}}
    /\ friends = {{1, 2}, {2, 3}}
    /\ hub = <<>>
    /\ sess = [s \in Sessions |-> FreeSession]
    /\ tasks = [t \in Tasks |-> IdleTask]
    /\ sent = <<>>
    /\ page = IdlePage
    /\ unread = None
    /\ reply = None
    /\ InitAcct

\* what a record of a store written earlier can be: a DM between users 1
\* and 2 or a message of group 1, in the payload format or in a format
\* from_slice rejects
StoredRecords ==
    {[key |-> DmKey(1, 2), users |-> {1, 2}, data |-> d] :
        d \in {to_vec(build_payload("hi", 1, MessageTargetUser(2))), <<2, "hi">>}}
    \union
    {[key |-> GroupKey(1), users |-> {1, 2}, data |-> d] :
        d \in {to_vec(build_payload("hi", 2, MessageTargetGroup(1))), <<1, "Channel", 1, "hi">>}}

\* the stores of up to MaxStored records, with the ids 1, 2, ... in order
StoredDbs ==
    {[seq |-> Len(l),
      log |-> [i \in 1..Len(l) |-> [mid |-> i, key |-> l[i].key,
                                     users |-> l[i].users, data |-> l[i].data]],
      poisoned |-> FALSE] :
        l \in UNION {[1..n -> StoredRecords] : n \in 0..MaxStored}}

\* the server starts on a store written earlier
InitStored ==
    /\ msg_db \in StoredDbs
    /\ read_index = {}
    /\ user_group_rel = {[id |-> u, group_id |-> 1, user_id |-> u, forbid |-> FALSE] : u \in {1, 2}}
    /\ friends = {{1, 2}, {2, 3}}
    /\ hub = <<>>
    /\ sess = [s \in Sessions |-> FreeSession]
    /\ tasks = [t \in Tasks |-> IdleTask]
    /\ sent = <<>>
    /\ page = IdlePage
    /\ unread = None
    /\ reply = None
    /\ InitAcct

(***************************************************************************)
(* The send handlers (user.rs send, group.rs send) and send_msg.          *)
(***************************************************************************)
\* sends accepted so far: appended, or in flight before their append
SendsStarted ==
    msg_db.seq + Cardinality({t \in Tasks : tasks[t].pc \in {"get_uids", "send_msg"}})

TaskPayload(t) ==
    build_payload(tasks[t].content, tasks[t].uid,
                  IF tasks[t].kind = "User"
                  THEN MessageTargetUser(tasks[t].target)
                  ELSE MessageTargetGroup(tasks[t].target))

\* user.rs send, up to the call of send_msg: the friend check
user_send(t, me, uid, msg) ==
    /\ tasks[t].pc = "idle"
    /\ is_friend(friends, me, uid)
    /\ tasks' = [tasks EXCEPT ![t] =
                    [pc |-> "send_msg", kind |-> "User", uid |-> me, target |-> uid,
                     content |-> msg, mid |-> NoMid, uids |-> {}]]
    /\ UNCHANGED <<msg_db, read_index, user_group_rel, friends, hub, sess, sent, page, unread, reply, acct>>

\* variant: the sender's row is not looked at
group_send_unchecked(t, me, gid, msg) ==
    /\ tasks[t].pc = "idle"
    /\ tasks' = [tasks EXCEPT ![t] =
                    [pc |-> "get_uids", kind |-> "Group", uid |-> me, target |-> gid,
                     content |-> msg, mid |-> NoMid, uids |-> {}]]
    /\ UNCHANGED <<msg_db, read_index, user_group_rel, friends, hub, sess, sent, page, unread, reply, acct>>

\* group.rs send, up to the call of send_msg: in the group and not forbidden
group_send(t, me, gid, msg) ==
    /\ tasks[t].pc = "idle"
    /\ check_status(user_group_rel, gid, me).in_group
    /\ ~check_status(user_group_rel, gid, me).forbid
    /\ tasks' = [tasks EXCEPT ![t] =
                    [pc |-> "get_uids", kind |-> "Group", uid |-> me, target |-> gid,
                     content |-> msg, mid |-> NoMid, uids |-> {}]]
    /\ UNCHANGED <<msg_db, read_index, user_group_rel, friends, hub, sess, sent, page, unread, reply, acct>>

\* group.rs send by somebody outside the group or forbidden: GroupErr
group_send_refused(t, me, gid, msg) ==
    /\ tasks[t].pc = "idle"
    /\ \/ ~check_status(user_group_rel, gid, me).in_group
       \/ check_status(user_group_rel, gid, me).forbid
    /\ tasks' = [tasks EXCEPT ![t] =
                    [pc |-> "GroupErr", kind |-> "Group", uid |-> me, target |-> gid,
                     content |-> msg, mid |-> NoMid, uids |-> {}]]
    /\ UNCHANGED <<msg_db, read_index, user_group_rel, friends, hub, sess, sent, page, unread, reply, acct>>

\* send_msg, Group branch: group::get_uids(&app_state, gid).await
send_msg_get_uids(t) ==
    /\ tasks[t].pc = "get_uids"
    /\ tasks' = [tasks EXCEPT ![t].uids = get_uids(user_group_rel, tasks[t].target),
                              ![t].pc = "send_msg"]
    /\ UNCHANGED <<msg_db, read_index, user_group_rel, friends, hub, sess, sent, page, unread, reply, acct>>

\* receivers of the broadcast channel that are alive
Receivers == {s \in Sessions : sess[s].st = "connected"}

\* send_msg: the append, under the store's mutex
send_msg_append(t) ==
    /\ tasks[t].pc = "send_msg"
    /\ Lockable(msg_db)
    /\ LET r == send_msg_store(msg_db, TaskPayload(t), tasks[t].uids)
       IN /\ msg_db' = r.db
          /\ tasks' = [tasks EXCEPT ![t].mid = send_msg_result(r, TaskPayload(t)),
                                    ![t].pc = "publish"]
          /\ sent' = Append(sent, [mid |-> send_msg_result(r, TaskPayload(t)),
                                    payload |-> TaskPayload(t)])
    /\ UNCHANGED <<read_index, user_group_rel, friends, hub, sess, page, unread, reply, acct>>

\* event_sender.send(event): kept only if a receiver exists; the result is ignored
HubSend(h, event) == IF Receivers = {} THEN h ELSE Append(h, event)

\* variant: an event that finds no receiver fails the handler
send_msg_publish_checked(t) ==
    /\ tasks[t].pc = "publish"
    /\ hub' = HubSend(hub, send_msg_event(TaskPayload(t), tasks[t].mid, tasks[t].uids))
    /\ tasks' = [tasks EXCEPT ![t] = IF Receivers = {} THEN IdleTask
                                     ELSE [@ EXCEPT !.pc = "ri_own"]]
    /\ UNCHANGED <<msg_db, read_index, user_group_rel, friends, sess, sent, page, unread, reply, acct>>

\* send_msg: the publish, after the mutex was released
send_msg_publish(t) ==
    /\ tasks[t].pc = "publish"
    /\ hub' = HubSend(hub, send_msg_event(TaskPayload(t), tasks[t].mid, tasks[t].uids))
    /\ tasks' = [tasks EXCEPT ![t].pc = "ri_own"]
    /\ UNCHANGED <<msg_db, read_index, user_group_rel, friends, sess, sent, page, unread, reply, acct>>

\* variant: the error of the store call is ignored and send_msg goes on
send_msg_append_fails_goes_on(t) ==
    /\ tasks[t].pc = "send_msg"
    /\ Lockable(msg_db)
    /\ tasks' = [tasks EXCEPT ![t].pc = "publish"]
    /\ UNCHANGED <<msg_db, read_index, user_group_rel, friends, hub, sess, sent, page, unread, reply, acct>>

\* variant: a panic instead of an error, with the guard held
send_msg_append_fails_panics(t) ==
    /\ tasks[t].pc = "send_msg"
    /\ Lockable(msg_db)
    /\ msg_db' = [msg_db EXCEPT !.poisoned = TRUE]
    /\ tasks' = [tasks EXCEPT ![t].pc = "MsgErr"]
    /\ UNCHANGED <<read_index, user_group_rel, friends, hub, sess, sent, page, unread, reply, acct>>

\* send_msg: the store call fails and leaves nothing written; the `?` after
\* it and the `?` after send_msg in the handler hand the error to the caller
send_msg_append_fails(t) ==
    /\ tasks[t].pc = "send_msg"
    /\ Lockable(msg_db)
    /\ tasks' = [tasks EXCEPT ![t].pc = "MsgErr"]
    /\ UNCHANGED <<msg_db, read_index, user_group_rel, friends, hub, sess, sent, page, unread, reply, acct>>

\* variant: a failed lookup counts as a group without members
send_msg_get_uids_fails_empty(t) ==
    /\ tasks[t].pc = "get_uids"
    /\ tasks' = [tasks EXCEPT ![t].uids = {}, ![t].pc = "send_msg"]
    /\ UNCHANGED <<msg_db, read_index, user_group_rel, friends, hub, sess, sent, page, unread, reply, acct>>

\* send_msg, Group branch: group::get_uids(..).await fails and `?` hands the
\* DbErr to the handler, which returns it
send_msg_get_uids_fails(t) ==
    /\ tasks[t].pc = "get_uids"
    /\ tasks' = [tasks EXCEPT ![t].pc = "DbErr"]
    /\ UNCHANGED <<msg_db, read_index, user_group_rel, friends, hub, sess, sent, page, unread, reply, acct>>

\* ServerError::into_response: the failed request is answered
into_response(t) ==
    /\ tasks[t].pc \in {"MsgErr", "DbErr", "GroupErr"}
    /\ tasks' = [tasks EXCEPT ![t] = IdleTask]
    /\ UNCHANGED <<msg_db, read_index, user_group_rel, friends, hub, sess, sent, page, unread, reply, acct>>

(***************************************************************************)
(* set_read_index, step by step, and the read-index endpoint.             *)
(***************************************************************************)
\* read_index_group_id_fk: a row with target_gid needs its group row, so the
\* inserts of the Group branch are refused once the group is deleted
read_index_group_id_fk(t) == tasks[t].kind = "Group" => tasks[t].target \in group

\* the first insert of either branch; in the Group branch a refused insert
\* is returned as DbErr
ri_own(t) ==
    /\ tasks[t].pc = "ri_own"
    /\ IF read_index_group_id_fk(t)
       THEN /\ read_index' = set_read_index_own(read_index, tasks[t].uid, tasks[t].kind,
                                                tasks[t].target, tasks[t].mid)
            /\ tasks' = [tasks EXCEPT ![t].pc =
                            IF tasks[t].kind = "User" THEN "ri_peer" ELSE "ri_uids"]
       ELSE /\ read_index' = read_index
            /\ tasks' = [tasks EXCEPT ![t].pc = "DbErr"]
    /\ UNCHANGED <<msg_db, user_group_rel, friends, hub, sess, sent, page, unread, reply, acct>>

\* the first insert fails: the User branch binds the result and goes on
\* whatever the error is, the Group branch returns the DbErr
ri_own_fails(t) ==
    /\ tasks[t].pc = "ri_own"
    /\ tasks' = [tasks EXCEPT ![t].pc = IF tasks[t].kind = "User" THEN "ri_peer" ELSE "DbErr"]
    /\ UNCHANGED <<msg_db, read_index, user_group_rel, friends, hub, sess, sent, page, unread, reply, acct>>

\* User branch: the second insert fails and set_read_index returns the DbErr
ri_peer_fails(t) ==
    /\ tasks[t].pc = "ri_peer"
    /\ tasks' = [tasks EXCEPT ![t].pc = "DbErr"]
    /\ UNCHANGED <<msg_db, read_index, user_group_rel, friends, hub, sess, sent, page, unread, reply, acct>>

\* User branch: the second insert, then the handler returns
ri_peer(t) ==
    /\ tasks[t].pc = "ri_peer"
    /\ read_index' = set_read_index_peer(read_index, tasks[t].uid, tasks[t].target,
                                         tasks[t].mid)
    /\ tasks' = [tasks EXCEPT ![t] = IdleTask]
    /\ UNCHANGED <<msg_db, user_group_rel, friends, hub, sess, sent, page, unread, reply, acct>>

\* Group branch: group::get_uids(app_state, target_gid).await
ri_uids(t) ==
    /\ tasks[t].pc = "ri_uids"
    /\ tasks' = [tasks EXCEPT ![t].uids = get_uids(user_group_rel, tasks[t].target),
                              ![t].pc = "ri_rest"]
    /\ UNCHANGED <<msg_db, read_index, user_group_rel, friends, hub, sess, sent, page, unread, reply, acct>>

\* Group branch: group::get_uids(..).await fails and set_read_index returns
\* the DbErr, after the message was appended and its event published
ri_uids_fails(t) ==
    /\ tasks[t].pc = "ri_uids"
    /\ tasks' = [tasks EXCEPT ![t].pc = "DbErr"]
    /\ UNCHANGED <<msg_db, read_index, user_group_rel, friends, hub, sess, sent, page, unread, reply, acct>>

\* Group branch: insert_many, then the handler returns; rows of a deleted
\* group are refused, insert_many of no rows is an error too (there is no
\* on_empty_do_nothing), and the DbErr is returned
ri_rest(t) ==
    /\ tasks[t].pc = "ri_rest"
    /\ IF read_index_group_id_fk(t) /\ tasks[t].uids # {}
       THEN /\ read_index' = set_read_index_members(read_index, tasks[t].uid,
                                                    tasks[t].target, tasks[t].mid,
                                                    tasks[t].uids)
            /\ tasks' = [tasks EXCEPT ![t] = IdleTask]
       ELSE /\ read_index' = read_index
            /\ tasks' = [tasks EXCEPT ![t].pc = "DbErr"]
    /\ UNCHANGED <<msg_db, user_group_rel, friends, hub, sess, sent, page, unread, reply, acct>>

\* Group branch: insert_many fails and set_read_index returns the DbErr
ri_rest_fails(t) ==
    /\ tasks[t].pc = "ri_rest"
    /\ tasks' = [tasks EXCEPT ![t].pc = "DbErr"]
    /\ UNCHANGED <<msg_db, read_index, user_group_rel, friends, hub, sess, sent, page, unread, reply, acct>>

\* read_index.rs read_index: PUT / with an UpdateReadIndex chosen by the client
read_index_put(t, me, kind, target, mid) ==
    /\ tasks[t].pc = "idle"
    /\ tasks' = [tasks EXCEPT ![t] =
                    [pc |-> "ri_own", kind |-> kind, uid |-> me, target |-> target,
                     content |-> "", mid |-> mid, uids |-> {}]]
    /\ UNCHANGED <<msg_db, read_index, user_group_rel, friends, hub, sess, sent, page, unread, reply, acct>>

(***************************************************************************)
(* group.rs: create, add, remove, delete_group, forbid and un_forbid, one *)
(* step per statement that reads or writes a table.                       *)
(***************************************************************************)
\* the handlers that are on their way to an insert into user_group_rel
Inserting == {t \in Tasks : calls[t].pc \in {"add_check_status", "add_to_group"}}

\* create: the group row is inserted under the next id, the caller will be
\* its first member
create(t, me) ==
    /\ calls[t].pc = "idle"
    /\ auto_increment.group \in Groups
    /\ auto_increment.user_group_rel + Cardinality(Inserting) <= MaxRelId
    /\ group' = group \union {auto_increment.group}
    /\ auto_increment' = [auto_increment EXCEPT !.group = @ + 1]
    /\ calls' = [calls EXCEPT ![t] =
                    [IdleCall EXCEPT !.pc = "add_to_group", !.uid = me,
                                     !.target = auto_increment.group]]
    /\ UNCHANGED <<msg_db, read_index, user_group_rel, friends, hub, sess, tasks, sent, page,
                   unread, reply, friend_request, user, LOGIN_USER, now, issued, ended,
                   revoked>>

\* add, its first two awaits: the group exists (and so does the user)
group_add(t, gid, uid) ==
    /\ calls[t].pc = "idle"
    /\ gid \in group
    /\ auto_increment.user_group_rel + Cardinality(Inserting) <= MaxRelId
    /\ calls' = [calls EXCEPT ![t] =
                    [IdleCall EXCEPT !.pc = "add_check_status", !.uid = uid, !.target = gid]]
    /\ UNCHANGED <<msg_db, read_index, user_group_rel, friends, hub, sess, tasks, sent, page,
                   unread, reply, friend_request, user, LOGIN_USER, now, issued, ended,
                   revoked, group, auto_increment>>

\* add: a user who is in the group already is answered at once
add_check_status(t) ==
    /\ calls[t].pc = "add_check_status"
    /\ calls' = [calls EXCEPT ![t] =
                    IF check_status(user_group_rel, calls[t].target, calls[t].uid).in_group
                    THEN IdleCall
                    ELSE [@ EXCEPT !.pc = "add_to_group"]]
    /\ UNCHANGED <<msg_db, read_index, user_group_rel, friends, hub, sess, tasks, sent, page,
                   unread, reply, friend_request, user, LOGIN_USER, now, issued, ended,
                   revoked, group, auto_increment>>

\* add_to_group, called by add and by create: the insert, which only the
\* unique key (group_id, user_id) can refuse; the row of the group is not
\* looked at again
add_to_group(t) ==
    /\ calls[t].pc = "add_to_group"
    /\ IF check_status(user_group_rel, calls[t].target, calls[t].uid).in_group
       THEN UNCHANGED <<user_group_rel, auto_increment>>
       ELSE /\ user_group_rel' = user_group_rel \union
                  {[id |-> auto_increment.user_group_rel, group_id |-> calls[t].target,
                    user_id |-> calls[t].uid, forbid |-> FALSE]}
            /\ auto_increment' = [auto_increment EXCEPT !.user_group_rel = @ + 1]
    /\ calls' = [calls EXCEPT ![t] = IdleCall]
    /\ UNCHANGED <<msg_db, read_index, friends, hub, sess, tasks, sent, page,
                   unread, reply, friend_request, user, LOGIN_USER, now, issued, ended,
                   revoked, group>>

\* remove, its first two awaits: the group exists (and so does the user)
group_remove(t, gid, uid) ==
    /\ calls[t].pc = "idle"
    /\ gid \in group
    /\ calls' = [calls EXCEPT ![t] =
                    [IdleCall EXCEPT !.pc = "remove_check_status", !.uid = uid,
                                     !.target = gid]]
    /\ UNCHANGED <<msg_db, read_index, user_group_rel, friends, hub, sess, tasks, sent, page,
                   unread, reply, friend_request, user, LOGIN_USER, now, issued, ended,
                   revoked, group, auto_increment>>

\* remove: a user who is not in the group is answered UserNotInGroup
remove_check_status(t) ==
    /\ calls[t].pc = "remove_check_status"
    /\ calls' = [calls EXCEPT ![t] =
                    IF check_status(user_group_rel, calls[t].target, calls[t].uid).in_group
                    THEN [@ EXCEPT !.pc = "delete_many"]
                    ELSE IdleCall]
    /\ UNCHANGED <<msg_db, read_index, user_group_rel, friends, hub, sess, tasks, sent, page,
                   unread, reply, friend_request, user, LOGIN_USER, now, issued, ended,
                   revoked, group, auto_increment>>

\* remove: delete_many of the rows of the user in the group, whether the
\* group is still there or not
remove_delete_many(t) ==
    /\ calls[t].pc = "delete_many"
    /\ user_group_rel' = {x \in user_group_rel :
                             ~(x.group_id = calls[t].target /\ x.user_id = calls[t].uid)}
    /\ calls' = [calls EXCEPT ![t] = IdleCall]
    /\ UNCHANGED <<msg_db, read_index, friends, hub, sess, tasks, sent, page,
                   unread, reply, friend_request, user, LOGIN_USER, now, issued, ended,
                   revoked, group, auto_increment>>

\* delete_group, its first await: the group exists
delete_group(t, gid) ==
    /\ calls[t].pc = "idle"
    /\ gid \in group
    /\ calls' = [calls EXCEPT ![t] = [IdleCall EXCEPT !.pc = "begin", !.target = gid]]
    /\ UNCHANGED <<msg_db, read_index, user_group_rel, friends, hub, sess, tasks, sent, page,
                   unread, reply, friend_request, user, LOGIN_USER, now, issued, ended,
                   revoked, group, auto_increment>>

\* delete_group, its transaction: the group row, if find_by_id still finds
\* it, and all user_group_rel rows of the group, whether the group row was
\* there or not; the read_index rows of the group go with the group row
\* (read_index_group_id_fk, on delete cascade)
delete_group_commit(t) ==
    /\ calls[t].pc = "begin"
    /\ group' = group \ {calls[t].target}
    /\ user_group_rel' = {x \in user_group_rel : x.group_id # calls[t].target}
    /\ read_index' = IF calls[t].target \in group
                     THEN {r \in read_index : r.target_gid # calls[t].target}
                     ELSE read_index
    /\ calls' = [calls EXCEPT ![t] = IdleCall]
    /\ UNCHANGED <<msg_db, friends, hub, sess, tasks, sent, page, unread, reply,
                   friend_request, user, LOGIN_USER, now, issued, ended, revoked,
                   auto_increment>>

\* PUT /:gid/forbid/:uid by the group's admin, its first await: the group row
forbid(t, gid, uid) ==
    /\ calls[t].pc = "idle"
    /\ gid \in group
    /\ calls' = [calls EXCEPT ![t] =
                    [IdleCall EXCEPT !.pc = "find_ugr", !.uid = uid, !.target = gid,
                                     !.status = "forbid"]]
    /\ UNCHANGED <<msg_db, read_index, user_group_rel, friends, hub, sess, tasks, sent, page,
                   unread, reply, friend_request, user, LOGIN_USER, now, issued, ended,
                   revoked, group, auto_increment>>

\* DELETE /:gid/forbid/:uid by the group's admin, its first await
un_forbid(t, gid, uid) ==
    /\ calls[t].pc = "idle"
    /\ gid \in group
    /\ calls' = [calls EXCEPT ![t] =
                    [IdleCall EXCEPT !.pc = "find_ugr", !.uid = uid, !.target = gid,
                                     !.status = "un_forbid"]]
    /\ UNCHANGED <<msg_db, read_index, user_group_rel, friends, hub, sess, tasks, sent, page,
                   unread, reply, friend_request, user, LOGIN_USER, now, issued, ended,
                   revoked, group, auto_increment>>

\* forbid and un_forbid, the second await: the row of the user in the group;
\* no row, or a row that is as asked already, ends the request
find_ugr(t) ==
    /\ calls[t].pc = "find_ugr"
    /\ LET rows == {x \in user_group_rel :
                       x.group_id = calls[t].target /\ x.user_id = calls[t].uid}
           ugr == CHOOSE x \in rows : TRUE
       IN calls' = [calls EXCEPT ![t] =
                       IF rows = {} \/ ugr.forbid = (calls[t].status = "forbid")
                       THEN IdleCall
                       ELSE [@ EXCEPT !.pc = "update_ugr", !.row = Some(ugr)]]
    /\ UNCHANGED <<msg_db, read_index, user_group_rel, friends, hub, sess, tasks, sent, page,
                   unread, reply, friend_request, user, LOGIN_USER, now, issued, ended,
                   revoked, group, auto_increment>>

\* forbid and un_forbid, the third await: model.update sets the column
\* forbid of the row with the id that was read, if that row is still there
update_ugr(t) ==
    /\ calls[t].pc = "update_ugr"
    /\ user_group_rel' =
          {IF x.id = calls[t].row[1].id
           THEN [x EXCEPT !.forbid = (calls[t].status = "forbid")]
           ELSE x : x \in user_group_rel}
    /\ calls' = [calls EXCEPT ![t] = IdleCall]
    /\ UNCHANGED <<msg_db, read_index, friends, hub, sess, tasks, sent, page,
                   unread, reply, friend_request, user, LOGIN_USER, now, issued, ended,
                   revoked, group, auto_increment>>

(***************************************************************************)
(* event.rs: the streaming endpoint and its event loop.                   *)
(***************************************************************************)
\* variant: the new receiver starts at the oldest event of the channel
event_handler_replay(s, current_uid) ==
    /\ sess[s].st = "free"
    /\ sess' = [sess EXCEPT ![s] =
                   [st |-> "connected", uid |-> current_uid, from |-> Len(hub),
                    pos |-> 0, open |-> TRUE, pushed |-> <<>>]]
    /\ UNCHANGED <<msg_db, read_index, user_group_rel, friends, hub, tasks, sent, page, unread, reply, acct>>

\* event_handler: subscribe at the channel's tail and spawn event_loop
event_handler(s, current_uid) ==
    /\ sess[s].st = "free"
    /\ sess' = [sess EXCEPT ![s] =
                   [st |-> "connected", uid |-> current_uid, from |-> Len(hub),
                    pos |-> Len(hub), open |-> TRUE, pushed |-> <<>>]]
    /\ UNCHANGED <<msg_db, read_index, user_group_rel, friends, hub, tasks, sent, page, unread, reply, acct>>

\* the negation of the `continue` condition of the Chat arm
event_loop_keeps(event, current_uid) ==
    ~(current_uid \notin event.targets /\ event.message.payload.from_uid # current_uid)

\* variant: a frame is put in front of the frames already handed over
event_loop_recv_prepends(s) ==
    /\ sess[s].st = "connected"
    /\ sess[s].pos < Len(hub)
    /\ IF Len(hub) - sess[s].pos > HubCapacity
       THEN \* Err(Lagged): break
            sess' = [sess EXCEPT ![s].st = "terminated"]
       ELSE LET event == hub[sess[s].pos + 1]
            IN IF ~event_loop_keeps(event, sess[s].uid)
               THEN \* continue
                    sess' = [sess EXCEPT ![s].pos = @ + 1]
               ELSE IF sess[s].open
                    THEN sess' = [sess EXCEPT ![s].pos = @ + 1,
                                              ![s].pushed = <<event.message.mid>> \o @]
                    ELSE \* tx_msg.send(..).is_err(): break
                         sess' = [sess EXCEPT ![s].pos = @ + 1, ![s].st = "terminated"]
    /\ UNCHANGED <<msg_db, read_index, user_group_rel, friends, hub, tasks, sent, page, unread, reply, acct>>

\* variant: the receiver stays on an event it has pushed
event_loop_recv_no_advance(s) ==
    /\ sess[s].st = "connected"
    /\ sess[s].pos < Len(hub)
    /\ IF Len(hub) - sess[s].pos > HubCapacity
       THEN \* Err(Lagged): break
            sess' = [sess EXCEPT ![s].st = "terminated"]
       ELSE LET event == hub[sess[s].pos + 1]
            IN IF ~event_loop_keeps(event, sess[s].uid)
               THEN \* continue
                    sess' = [sess EXCEPT ![s].pos = @ + 1]
               ELSE IF sess[s].open
                    THEN sess' = [sess EXCEPT ![s].pushed = Append(@, event.message.mid)]
                    ELSE \* tx_msg.send(..).is_err(): break
                         sess' = [sess EXCEPT ![s].pos = @ + 1, ![s].st = "terminated"]
    /\ UNCHANGED <<msg_db, read_index, user_group_rel, friends, hub, tasks, sent, page, unread, reply, acct>>

\* variant: an event that is not kept ends the loop
event_loop_recv_breaks_on_discard(s) ==
    /\ sess[s].st = "connected"
    /\ sess[s].pos < Len(hub)
    /\ IF Len(hub) - sess[s].pos > HubCapacity
       THEN \* Err(Lagged): break
            sess' = [sess EXCEPT ![s].st = "terminated"]
       ELSE LET event == hub[sess[s].pos + 1]
            IN IF ~event_loop_keeps(event, sess[s].uid)
               THEN sess' = [sess EXCEPT ![s].pos = @ + 1, ![s].st = "terminated"]
               ELSE IF sess[s].open
                    THEN sess' = [sess EXCEPT ![s].pos = @ + 1,
                                              ![s].pushed = Append(@, event.message.mid)]
                    ELSE \* tx_msg.send(..).is_err(): break
                         sess' = [sess EXCEPT ![s].pos = @ + 1, ![s].st = "terminated"]
    /\ UNCHANGED <<msg_db, read_index, user_group_rel, friends, hub, tasks, sent, page, unread, reply, acct>>

\* event_loop, the receiver.recv() arm of the select
event_loop_recv(s) ==
    /\ sess[s].st = "connected"
    /\ sess[s].pos < Len(hub)
    /\ IF Len(hub) - sess[s].pos > HubCapacity
       THEN \* Err(Lagged): break
            sess' = [sess EXCEPT ![s].st = "terminated"]
       ELSE LET event == hub[sess[s].pos + 1]
            IN IF ~event_loop_keeps(event, sess[s].uid)
               THEN \* continue
                    sess' = [sess EXCEPT ![s].pos = @ + 1]
               ELSE IF sess[s].open
                    THEN sess' = [sess EXCEPT ![s].pos = @ + 1,
                                              ![s].pushed = Append(@, event.message.mid)]
                    ELSE \* tx_msg.send(..).is_err(): break
                         sess' = [sess EXCEPT ![s].pos = @ + 1, ![s].st = "terminated"]
    /\ UNCHANGED <<msg_db, read_index, user_group_rel, friends, hub, tasks, sent, page, unread, reply, acct>>

\* variant: a heartbeat that cannot be handed over is ignored
event_loop_heartbeat_ignores_error(s) ==
    /\ sess[s].st = "connected"
    /\ sess' = sess
    /\ UNCHANGED <<msg_db, read_index, user_group_rel, friends, hub, tasks, sent, page, unread, reply, acct>>

\* event_loop, the heartbeat.tick() arm: the frame itself is not recorded
event_loop_heartbeat(s) ==
    /\ sess[s].st = "connected"
    /\ sess' = IF sess[s].open THEN sess ELSE [sess EXCEPT ![s].st = "terminated"]
    /\ UNCHANGED <<msg_db, read_index, user_group_rel, friends, hub, tasks, sent, page, unread, reply, acct>>

\* the client goes away: the response stream and with it rx_msg are dropped
client_close(s) ==
    /\ sess[s].st = "connected"
    /\ sess[s].open
    /\ sess' = [sess EXCEPT ![s].open = FALSE]
    /\ UNCHANGED <<msg_db, read_index, user_group_rel, friends, hub, tasks, sent, page, unread, reply, acct>>

(***************************************************************************)
(* A client paging through one conversation with get_history_msg.         *)
(***************************************************************************)
HistoryReqs(limits) ==
    {HistoryMsgUser(a, b, NoMid, k) : a \in Users, b \in Users, k \in limits}
        \union {HistoryMsgGroup(g, NoMid, k) : g \in Groups, k \in limits}

page_start(req) ==
    /\ page.st = "idle"
    /\ page' = [st |-> "walking", req |-> req, seq |-> msg_db.seq, acc |-> <<>>]
    /\ UNCHANGED <<msg_db, read_index, user_group_rel, friends, hub, sess, tasks, sent, unread, reply, acct>>

\* fetch one batch: an empty batch ends the walk, else its oldest id is the next cursor
page_next ==
    /\ page.st = "walking"
    /\ Lockable(msg_db)
    /\ LET batch == get_history_msg(msg_db, page.req)
       IN IF batch = <<>>
          THEN page' = [page EXCEPT !.st = "done"]
          ELSE page' = [page EXCEPT !.acc = @ \o batch,
                                    !.req.before = batch[Len(batch)].mid]
    /\ UNCHANGED <<msg_db, read_index, user_group_rel, friends, hub, sess, tasks, sent, unread, reply, acct>>

(***************************************************************************)
(* The unread descriptor of a read-index row.                             *)
(***************************************************************************)
\* rows of the shape of entity::read_index::Model, with any combination of
\* targets and any acknowledged id
Models ==
    [uid : Users, target_uid : Users \union {NoId}, target_gid : group \union {NoId},
     mid : 0..MaxLiveMsgs, latest_mid : {MaxLiveMsgs}, uid_of_latest_msg : {1}]

\* the call of count_unread_msg for the row ri reaches the store
CallsStore(ri) == ri.mid # NoMid /\ (ri.target_uid = NoId) # (ri.target_gid = NoId)

\* one call of count_unread_msg; the counting call of the store, made under
\* the mutex if the row has an acknowledged id and one target, may fail
count_unread(ri, io_err) ==
    /\ CallsStore(ri) => Lockable(msg_db)
    /\ io_err => CallsStore(ri)
    /\ unread' = Some([ri |-> ri, out |-> count_unread_msg(ri, msg_db, io_err)])
    /\ unread' # unread
    /\ UNCHANGED <<msg_db, read_index, user_group_rel, friends, hub, sess, tasks, sent, page, reply, acct>>

(***************************************************************************)
(* History queries and batch lookups over a store whose calls may fail.   *)
(***************************************************************************)
\* the last call has returned
Returned == IF reply = None THEN TRUE ELSE reply[1].left = <<>>

\* one call of get_history_msg
history(req, io_err) ==
    /\ Returned
    /\ Lockable(msg_db)
    /\ reply' = Some([op |-> "history", req |-> req, mids |-> <<>>, failed |-> io_err,
                      left |-> <<>>,
                      out |-> get_history_msg_io(msg_db, req, io_err)])
    /\ reply' # reply
    /\ UNCHANGED <<msg_db, read_index, user_group_rel, friends, hub, sess, tasks, sent, page, unread, acct>>

\* a call of get_by_mids begins: no id is looked up yet
lookup(mids) ==
    /\ Returned
    /\ reply' = Some([op |-> "lookup", req |-> IdlePage.req, mids |-> mids,
                      failed |-> FALSE, left |-> mids, out |-> <<>>])
    /\ reply' # reply
    /\ UNCHANGED <<msg_db, read_index, user_group_rel, friends, hub, sess, tasks, sent, page, unread, acct>>

\* get_by_mids takes the next id: the mutex is locked for this one call of
\* get, which may fail, and what is found and decodable is collected
lookup_get(io_err) ==
    /\ ~Returned
    /\ Lockable(msg_db)
    /\ reply' = Some([reply[1] EXCEPT
                        !.out = @ \o get_by_mids(msg_db, <<Head(reply[1].left)>>, <<io_err>>),
                        !.failed = @ \/ io_err,
                        !.left = Tail(@)])
    /\ UNCHANGED <<msg_db, read_index, user_group_rel, friends, hub, sess, tasks, sent, page, unread, acct>>

\* the history requests of users 1 and 2, with every cursor and limit
StoredReqs ==
    {[r EXCEPT !.before = b, !.limit = k] :
        r \in {HistoryMsgUser(1, 2, NoMid, 0), HistoryMsgUser(2, 1, NoMid, 0),
               HistoryMsgGroup(1, NoMid, 0)},
        b \in 0..msg_db.seq, k \in 1..MaxStored}

\* the id lists of a batch lookup: one or two ids, stored or not
StoredMids ==
    {<<a>> : a \in 1..(msg_db.seq + 1)}
        \union {<<a, b>> : a \in 1..(msg_db.seq + 1), b \in 1..(msg_db.seq + 1)}

(***************************************************************************)
(* friend.rs: friend requests and their review.                           *)
(***************************************************************************)
\* enum FriendRequestStatus
FriendRequestStatus == {"WAIT", "APPROVE", "REJECT"}

\* dgraph::set_friend_ship: both directions in one transaction
set_friend_ship(edges, uid_1, uid_2) == edges \union {{uid_1, uid_2}}

\* review, after the update: whatever the status, the edge is set
review_edges(edges, fr, status) == set_friend_ship(edges, fr.request_id, fr.target_id)

\* FriendRequest::find() filtered by request_id and target_id
find_request(table, request_id, target_id) ==
    {r \in table : r.request_id = request_id /\ r.target_id = target_id}

\* ActiveModel::update: the status of the row with this id is set
update_status(table, id, status) ==
    {IF r.id = id THEN [r EXCEPT !.status = status] ELSE r : r \in table}

\* requests that may still insert a row
Requesting == {t \in Tasks : calls[t].pc \in {"request_find", "request_insert"}}

\* POST /friend/req/:uid, up to dgraph::is_friend: the two are not friends
\* (friends are answered at once)
request(t, me, friend_id) ==
    /\ calls[t].pc = "idle"
    /\ Cardinality(friend_request) + Cardinality(Requesting) < MaxRequests
    /\ ~dgraph_is_friend(friends, me, friend_id)
    /\ calls' = [calls EXCEPT ![t] =
                    [IdleCall EXCEPT !.pc = "request_find", !.uid = me, !.target = friend_id]]
    /\ UNCHANGED <<msg_db, read_index, user_group_rel, friends, hub, sess, tasks, sent, page,
                   unread, reply, friend_request, user, LOGIN_USER, now, issued, ended, revoked, group, auto_increment>>

\* request: the row of the pair is looked for; a row that is WAIT or
\* APPROVE is answered at once
request_find(t) ==
    /\ calls[t].pc = "request_find"
    /\ LET rows == find_request(friend_request, calls[t].uid, calls[t].target)
       IN \/ /\ rows = {}
             /\ calls' = [calls EXCEPT ![t].pc = "request_insert"]
          \/ \E req \in rows :
                calls' = [calls EXCEPT ![t] =
                             IF req.status = "REJECT"
                             THEN [@ EXCEPT !.pc = "request_again", !.row = Some(req)]
                             ELSE IdleCall]
    /\ UNCHANGED <<msg_db, read_index, user_group_rel, friends, hub, sess, tasks, sent, page,
                   unread, reply, friend_request, user, LOGIN_USER, now, issued, ended, revoked, group, auto_increment>>

\* request, no row was found: a row is created, status WAIT
request_insert(t) ==
    /\ calls[t].pc = "request_insert"
    /\ friend_request' = friend_request \union
            {[id |-> Cardinality(friend_request) + 1, request_id |-> calls[t].uid,
              target_id |-> calls[t].target, status |-> "WAIT"]}
    /\ calls' = [calls EXCEPT ![t] = IdleCall]
    /\ UNCHANGED <<msg_db, read_index, user_group_rel, friends, hub, sess, tasks, sent, page,
                   unread, reply, user, LOGIN_USER, now, issued, ended, revoked, group, auto_increment>>

\* request, the row found was REJECT: it waits again
request_again(t) ==
    /\ calls[t].pc = "request_again"
    /\ friend_request' = update_status(friend_request, calls[t].row[1].id, "WAIT")
    /\ calls' = [calls EXCEPT ![t] = IdleCall]
    /\ UNCHANGED <<msg_db, read_index, user_group_rel, friends, hub, sess, tasks, sent, page,
                   unread, reply, user, LOGIN_USER, now, issued, ended, revoked, group, auto_increment>>

\* POST /friend/req by the target of the request, up to the update
review(t, me, id, status) ==
    /\ calls[t].pc = "idle"
    /\ \E fr \in {r \in friend_request : r.id = id} :
        /\ fr.target_id = me
        /\ calls' = [calls EXCEPT ![t] =
                        [IdleCall EXCEPT !.pc = "review_update", !.uid = me, !.target = id,
                                         !.status = status, !.row = Some(fr)]]
    /\ UNCHANGED <<msg_db, read_index, user_group_rel, friends, hub, sess, tasks, sent, page,
                   unread, reply, friend_request, user, LOGIN_USER, now, issued, ended, revoked, group, auto_increment>>

\* POST /friend/req by somebody else: FriendErr::CanNotReviewFriendRequest
review_refused(t, me, id, status) ==
    /\ calls[t].pc = "idle"
    /\ \E fr \in {r \in friend_request : r.id = id} : fr.target_id # me
    /\ calls' = [calls EXCEPT ![t] = [IdleCall EXCEPT !.pc = "FriendErr"]]
    /\ UNCHANGED <<msg_db, read_index, user_group_rel, friends, hub, sess, tasks, sent, page,
                   unread, reply, friend_request, user, LOGIN_USER, now, issued, ended, revoked, group, auto_increment>>

\* review: the status is stored
review_update(t) ==
    /\ calls[t].pc = "review_update"
    /\ friend_request' = update_status(friend_request, calls[t].target, calls[t].status)
    /\ calls' = [calls EXCEPT ![t].pc = "set_friend_ship"]
    /\ UNCHANGED <<msg_db, read_index, user_group_rel, friends, hub, sess, tasks, sent, page,
                   unread, reply, user, LOGIN_USER, now, issued, ended, revoked, group, auto_increment>>

\* review: the friendship is set
review_set_friend_ship(t) ==
    /\ calls[t].pc = "set_friend_ship"
    /\ friends' = review_edges(friends, calls[t].row[1], calls[t].status)
    /\ calls' = [calls EXCEPT ![t] = [IdleCall EXCEPT !.pc = "Ok"]]
    /\ UNCHANGED <<msg_db, read_index, user_group_rel, hub, sess, tasks, sent, page,
                   unread, reply, friend_request, user, LOGIN_USER, now, issued, ended,
                   revoked, group, auto_increment>>

\* review with the graph failing: set_friend_ship returns its error and no
\* edge is set
review_graph_fails(t) ==
    /\ calls[t].pc = "set_friend_ship"
    /\ calls' = [calls EXCEPT ![t] = [IdleCall EXCEPT !.pc = "ReqwestErr"]]
    /\ UNCHANGED <<msg_db, read_index, user_group_rel, friends, hub, sess, tasks, sent, page,
                   unread, reply, friend_request, user, LOGIN_USER, now, issued, ended, revoked, group, auto_increment>>

\* the review is answered
review_response(t) ==
    /\ calls[t].pc \in {"Ok", "FriendErr", "ReqwestErr"}
    /\ calls' = [calls EXCEPT ![t] = IdleCall]
    /\ UNCHANGED <<msg_db, read_index, user_group_rel, friends, hub, sess, tasks, sent, page,
                   unread, reply, friend_request, user, LOGIN_USER, now, issued, ended, revoked, group, auto_increment>>

\* the friend api, for the requests of the users in us, on the tasks in ts
FriendApi(ts, us) ==
    \E t \in ts :
        \/ \E me \in us, friend_id \in Users : request(t, me, friend_id)
        \/ request_find(t)
        \/ request_insert(t)
        \/ request_again(t)
        \/ \E me \in Users, id \in 1..MaxRequests, status \in FriendRequestStatus :
            \/ review(t, me, id, status)
            \/ review_refused(t, me, id, status)
        \/ review_update(t)
        \/ review_set_friend_ship(t)
        \/ review_graph_fails(t)
        \/ review_response(t)

(***************************************************************************)
(* auth.rs: tokens, the cache of logged-in users and the login check.     *)
(***************************************************************************)
\* the passwords a user may have
Passwords == {"a", "b"}

\* expire_timestamp: SECOND_TO_EXPIRED after the moment of the call
expire_timestamp(t) == t + SECOND_TO_EXPIRED

\* struct Token: the user's id (name, email, phone, dgraph_uid and role
\* follow from it) and the expiry
Token(id, exp) == [id |-> id, exp |-> exp]

\* gen_token: header, claims and the signature under KEYS; two tokens with
\* the same claims are the same string
gen_token(token) == <<"HS256", token.id, token.exp, "KEYS">>

\* parse_token: the signature is verified and exp is compared with the
\* clock, with no leeway
parse_token(jwt, t) ==
    IF jwt[1] = "HS256" /\ jwt[4] = "KEYS" /\ jwt[3] >= t
    THEN Some(Token(jwt[2], jwt[3]))
    ELSE None

\* LOGIN_USER.get(&id): the entry of the id, unless it was idle for
\* SECOND_TO_EXPIRED
cache_get(cache, id, t) ==
    IF cache[id] # None /\ t < cache[id][1].touched + SECOND_TO_EXPIRED
    THEN Some(cache[id][1].token)
    ELSE None

\* LOGIN_USER.insert(id, token), and what a get leaves behind: the entry
\* with its idle time starting again
cache_insert(cache, id, token, t) ==
    [cache EXCEPT ![id] = Some([token |-> token, touched |-> t])]

\* LOGIN_USER.remove(&id)
cache_remove(cache, id) == [cache EXCEPT ![id] = None]

\* check_token_expire: an entry for the token's user id exists
check_token_expire(cache, token, t) == cache_get(cache, token.id, t) # None

\* the Token extractor and middleware::check_login let the request through
Accepted(jwt) ==
    /\ parse_token(jwt, now) # None
    /\ check_token_expire(LOGIN_USER, parse_token(jwt, now)[1], now)

\* the tokens handed out so far for user id
TokensOf(id) == {j \in issued : j[2] = id}

\* POST /token/login, its first await: find_by_name reads the row of the user
login(t, u, pw) ==
    /\ calls[t].pc = "idle"
    /\ calls' = [calls EXCEPT ![t] =
                    [IdleCall EXCEPT !.pc = "login_token", !.uid = u, !.password = pw,
                                     !.row = Some(user[u])]]
    /\ UNCHANGED <<msg_db, read_index, user_group_rel, friends, hub, sess, tasks, sent, page,
                   unread, reply, friend_request, user, LOGIN_USER, now, issued, ended, revoked, group, auto_increment>>

\* login, when find_by_name has returned: a password other than the one of
\* the row that was read is answered WrongCredentials; otherwise Token::from
\* reads the clock for the token's exp
login_token(t) ==
    /\ calls[t].pc = "login_token"
    /\ calls' = [calls EXCEPT ![t] =
                    IF calls[t].row[1].password # calls[t].password
                    THEN IdleCall
                    ELSE [IdleCall EXCEPT !.pc = "login_insert", !.uid = calls[t].uid,
                                          !.token = Some(Token(calls[t].uid,
                                                               expire_timestamp(now)))]]
    /\ UNCHANGED <<msg_db, read_index, user_group_rel, friends, hub, sess, tasks, sent, page,
                   unread, reply, friend_request, user, LOGIN_USER, now, issued, ended, revoked, group, auto_increment>>

\* login: the token is cached under the user's id and handed out
login_insert(t) ==
    /\ calls[t].pc = "login_insert"
    /\ LOGIN_USER' = cache_insert(LOGIN_USER, calls[t].uid, calls[t].token[1], now)
    /\ issued' = issued \union {gen_token(calls[t].token[1])}
    /\ revoked' = revoked \ {gen_token(calls[t].token[1])}
    /\ ended' = ended \ {calls[t].uid}
    /\ calls' = [calls EXCEPT ![t] = IdleCall]
    /\ UNCHANGED <<msg_db, read_index, user_group_rel, friends, hub, sess, tasks, sent, page,
                   unread, reply, friend_request, user, now, group, auto_increment>>

\* a request to /token/logout, /token/renew or /user/password passes
\* check_login and its handler is about to run
check_login(t, jwt, route, pw) ==
    /\ calls[t].pc = "idle"
    /\ Accepted(jwt)
    /\ LOGIN_USER' = cache_insert(LOGIN_USER, jwt[2], cache_get(LOGIN_USER, jwt[2], now)[1], now)
    /\ calls' = [calls EXCEPT ![t] =
                    [IdleCall EXCEPT !.pc = route, !.jwt = Some(jwt),
                                     !.password = IF route = "password" THEN pw ELSE ""]]
    /\ UNCHANGED <<msg_db, read_index, user_group_rel, friends, hub, sess, tasks, sent, page,
                   unread, reply, friend_request, user, now, issued, ended, revoked, group, auto_increment>>

\* the Token extractor of the handler: the token is parsed again
extract(t) == parse_token(calls[t].jwt[1], now)

\* the handler is invoked: its Token argument is extracted, before the body
\* of the request is read and before the handler's first statement
from_request_parts(t) ==
    /\ calls[t].pc \in {"logout", "renew", "password"}
    /\ calls[t].token = None
    /\ extract(t) # None
    /\ calls' = [calls EXCEPT ![t].token = extract(t)]
    /\ UNCHANGED <<msg_db, read_index, user_group_rel, friends, hub, sess, tasks, sent, page,
                   unread, reply, friend_request, user, LOGIN_USER, now, issued, ended, revoked, group, auto_increment>>

\* the token has expired since the login check: AuthError::InvalidToken
\* instead of the handler
invalid_token(t) ==
    /\ calls[t].pc \in {"logout", "renew", "password"}
    /\ calls[t].token = None
    /\ extract(t) = None
    /\ calls' = [calls EXCEPT ![t] = IdleCall]
    /\ UNCHANGED <<msg_db, read_index, user_group_rel, friends, hub, sess, tasks, sent, page,
                   unread, reply, friend_request, user, LOGIN_USER, now, issued, ended, revoked, group, auto_increment>>

\* logout: the entry of the token's user id is removed
logout(t) ==
    /\ calls[t].pc = "logout"
    /\ calls[t].token # None
    /\ LOGIN_USER' = cache_remove(LOGIN_USER, calls[t].token[1].id)
    /\ calls' = [calls EXCEPT ![t] = IdleCall]
    /\ ended' = ended \union {calls[t].token[1].id}
    /\ revoked' = revoked \union TokensOf(calls[t].token[1].id)
    /\ UNCHANGED <<msg_db, read_index, user_group_rel, friends, hub, sess, tasks, sent, page,
                   unread, reply, friend_request, user, now, issued, group, auto_increment>>

\* renew, up to the remove: the token gets a new expiry and the entry of
\* its user id is removed
renew(t) ==
    /\ calls[t].pc = "renew"
    /\ calls[t].token # None
    /\ LOGIN_USER' = cache_remove(LOGIN_USER, calls[t].token[1].id)
    /\ calls' = [calls EXCEPT ![t].pc = "renew_insert",
                              ![t].token = Some([calls[t].token[1] EXCEPT
                                                    !.exp = expire_timestamp(now)])]
    /\ UNCHANGED <<msg_db, read_index, user_group_rel, friends, hub, sess, tasks, sent, page,
                   unread, reply, friend_request, user, now, issued, ended, revoked, group, auto_increment>>

\* renew: the new token is cached under its user id and handed out
renew_insert(t) ==
    /\ calls[t].pc = "renew_insert"
    /\ LOGIN_USER' = cache_insert(LOGIN_USER, calls[t].token[1].id, calls[t].token[1], now)
    /\ issued' = issued \union {gen_token(calls[t].token[1])}
    /\ revoked' = revoked \ {gen_token(calls[t].token[1])}
    /\ calls' = [calls EXCEPT ![t] = IdleCall]
    /\ UNCHANGED <<msg_db, read_index, user_group_rel, friends, hub, sess, tasks, sent, page,
                   unread, reply, friend_request, user, now, ended, group, auto_increment>>

\* user.rs password, up to the update: the user is found and the new
\* password is stored, whatever the clock says by then
password(t) ==
    /\ calls[t].pc = "password"
    /\ calls[t].token # None
    /\ user' = [user EXCEPT ![calls[t].token[1].id].password = calls[t].password]
    /\ calls' = [calls EXCEPT ![t].pc = "delete_login_status",
                              ![t].uid = calls[t].token[1].id]
    /\ UNCHANGED <<msg_db, read_index, user_group_rel, friends, hub, sess, tasks, sent, page,
                   unread, reply, friend_request, LOGIN_USER, now, issued, ended, revoked, group, auto_increment>>

\* password: auth::delete_login_status removes the entry of the user id
delete_login_status(t) ==
    /\ calls[t].pc = "delete_login_status"
    /\ LOGIN_USER' = cache_remove(LOGIN_USER, calls[t].uid)
    /\ calls' = [calls EXCEPT ![t] = IdleCall]
    /\ ended' = ended \union {calls[t].uid}
    /\ revoked' = revoked \union TokensOf(calls[t].uid)
    /\ UNCHANGED <<msg_db, read_index, user_group_rel, friends, hub, sess, tasks, sent, page,
                   unread, reply, friend_request, user, now, issued, group, auto_increment>>

\* time passes
tick ==
    /\ now < MaxClock
    /\ now' = now + 1
    /\ UNCHANGED <<msg_db, read_index, user_group_rel, friends, hub, sess, tasks, sent, page,
                   unread, reply, friend_request, user, LOGIN_USER, calls, issued, ended, revoked, group, auto_increment>>

\* the token api and the password change of the users in us, on the tasks in ts
TokenApi(ts, us) ==
    \/ \E t \in ts :
        \/ \E u \in us, pw \in Passwords : login(t, u, pw)
        \/ login_token(t)
        \/ login_insert(t)
        \/ \E jwt \in issued, route \in {"logout", "renew", "password"}, pw \in Passwords :
               check_login(t, jwt, route, pw)
        \/ from_request_parts(t)
        \/ invalid_token(t)
        \/ logout(t)
        \/ renew(t)
        \/ renew_insert(t)
        \/ password(t)
        \/ delete_login_status(t)
    \/ tick

(***************************************************************************)
(* Specifications.                                                        *)
(***************************************************************************)
\* the steps a started handler takes on its own
Pipeline(ts) ==
    \E t \in ts :
        \/ send_msg_get_uids(t)
        \/ send_msg_append(t)
        \/ send_msg_publish(t)
        \/ ri_own(t)
        \/ ri_peer(t)
        \/ ri_uids(t)
        \/ ri_rest(t)

\* POST /user/:uid/send and PUT /group/:gid/send
\* by the users in us; at most cap sends are accepted in a run
Sends(ts, us, cap) ==
    /\ SendsStarted < cap
    /\ \E t \in ts, me \in us, msg \in Contents :
        \/ \E uid \in Users : user_send(t, me, uid, msg)
        \/ \E gid \in Groups : group_send(t, me, gid, msg)

\* a store call or a membership lookup of a handler fails, and the failed
\* request is answered
Faults(ts) ==
    \E t \in ts :
        \/ send_msg_append_fails(t)
        \/ send_msg_get_uids_fails(t)
        \/ ri_uids_fails(t)
        \/ into_response(t)

\* a statement of set_read_index fails, and the failed request is answered
IndexFaults(ts) ==
    \E t \in ts :
        \/ ri_own_fails(t)
        \/ ri_peer_fails(t)
        \/ ri_uids_fails(t)
        \/ ri_rest_fails(t)
        \/ into_response(t)

\* group sends that check_status turns down, and their answers
Refusals(ts, us) ==
    \E t \in ts :
        \/ \E me \in us, gid \in Groups, msg \in Contents : group_send_refused(t, me, gid, msg)
        \/ into_response(t)

\* PUT and DELETE /:gid/forbid/:uid: the admin muting and unmuting the users
\* in us
Forbids(ts, us) ==
    \E t \in ts :
        \/ \E gid \in Groups, uid \in us : forbid(t, gid, uid) \/ un_forbid(t, gid, uid)
        \/ find_ugr(t)
        \/ update_ugr(t)

\* PUT /:gid/:uid for the users in us
Adding(ts, us) ==
    \E t \in ts :
        \/ \E gid \in Groups, uid \in us : group_add(t, gid, uid)
        \/ add_check_status(t)
        \/ add_to_group(t)

\* POST / by the users in us, and PUT /:gid/:uid for the users in us
Joining(ts, us) ==
    \/ \E t \in ts, me \in us : create(t, me)
    \/ Adding(ts, us)

\* DELETE /:gid/:uid for the users in us
Leaving(ts, us) ==
    \E t \in ts :
        \/ \E gid \in Groups, uid \in us : group_remove(t, gid, uid)
        \/ remove_check_status(t)
        \/ remove_delete_many(t)

\* DELETE /:gid
Deleting(ts) ==
    \E t \in ts :
        \/ \E gid \in Groups : delete_group(t, gid)
        \/ delete_group_commit(t)

\* groups made and deleted, the users in us joining and leaving, and the
\* requests that a deleted group fails being answered
Membership(ts, us) ==
    \/ Joining(ts, us)
    \/ Leaving(ts, us)
    \/ Deleting(ts)
    \/ \E t \in ts : into_response(t)

\* GET /stream, the event loops and the clients going away, on the connections in ss
Streams(ss) ==
    \E s \in ss :
        \/ \E u \in Users : event_handler(s, u)
        \/ event_loop_recv(s)
        \/ event_loop_heartbeat(s)
        \/ client_close(s)

\* the read-index endpoint called by the users in us, with the id of a message
\* and of a user or of a group that exist
Acks(ts, us) ==
    \E t \in ts, me \in us, mid \in 1..msg_db.seq :
        \/ \E uid \in Users \ {me} : read_index_put(t, me, "User", uid, mid)
        \/ \E gid \in group : read_index_put(t, me, "Group", gid, mid)

\* a client paging through a conversation
Paging ==
    \/ \E req \in HistoryReqs(1..MaxLimit) : page_start(req)
    \/ page_next

\* every operation, any interleaving
Next ==
    \/ Sends(Tasks, Users, MaxMsgs)
    \/ Pipeline(Tasks)
    \/ Acks(Tasks, Users)
    \/ Membership(Tasks, Users)
    \/ Streams(Sessions)
    \/ Paging

Spec == Init /\ [][Next]_vars

\* concurrent sends
NextStore == Sends(Tasks, Users, MaxMsgs) \/ Pipeline(Tasks)

SpecStore == Init /\ [][NextStore]_vars

\* one send at a time
NextSeq == Sends({1}, Users, MaxMsgs) \/ Pipeline({1})

SpecSeq == Init /\ [][NextSeq]_vars

\* one sender at a time and a client paging
NextPage == Sends({1}, Users, MaxMsgs) \/ Pipeline({1}) \/ Paging

SpecPage == Init /\ [][NextPage]_vars

\* sends by users 1 and 2, user 1 leaving the group, the group being deleted
\* and the sends it fails being answered, one streaming connection
NextHub ==
    \/ Sends({1}, {1, 2}, MaxLiveMsgs)
    \/ Pipeline({1})
    \/ Leaving({1}, {1})
    \/ Deleting({1})
    \/ into_response(1)
    \/ Streams({1})

SpecHub == Init /\ [][NextHub]_vars

\* sends by user 1, acknowledgements by user 2, user 3 joining the group
\* while another request deletes it
NextIndex ==
    \/ Sends({1}, {1}, MaxLiveMsgs)
    \/ Pipeline({1})
    \/ Acks({1}, {2})
    \/ Adding({1}, {3})
    \/ Deleting({2})
    \/ into_response(1)

SpecIndex == Init /\ [][NextIndex]_vars

\* sends by users 1 and 2 while user 1 makes a group, joins and leaves, and
\* groups are deleted
NextMembers ==
    \/ Sends({1}, {1, 2}, MaxLiveMsgs)
    \/ Pipeline({1})
    \/ Membership({1}, {1})

SpecMembers == Init /\ [][NextMembers]_vars

\* sends and one streaming connection
NextLive ==
    \/ Sends({1}, Users, MaxLiveMsgs)
    \/ Pipeline({1})
    \/ Streams({1})

\* sends by users 1 and 2, one at a time, and unread descriptors asked for
\* any row, with a count that may fail
NextUnread ==
    \/ Sends({1}, {1, 2}, MaxLiveMsgs)
    \/ Pipeline({1})
    \/ \E ri \in Models, io_err \in BOOLEAN : count_unread(ri, io_err)

SpecUnread == Init /\ [][NextUnread]_vars

\* sends by user 2 and two streaming connections
NextSubs ==
    \/ Sends({1}, {2}, MaxLiveMsgs)
    \/ Pipeline({1})
    \/ Streams(Sessions)

SpecSubs == Init /\ [][NextSubs]_vars

\* the runs in which the heartbeat timer of the connection keeps firing
SpecBridge ==
    /\ Init
    /\ [][NextLive]_vars
    /\ WF_vars(event_loop_heartbeat(1))

\* two handlers at a time: sends by users 1 and 2, one streaming connection
NextHubRace ==
    \/ Sends(Tasks, {1, 2}, MaxLiveMsgs)
    \/ Pipeline(Tasks)
    \/ Streams({1})

SpecHubRace == Init /\ [][NextHubRace]_vars

\* two handlers at a time: sends by users 1 and 2, acknowledgements by user 2
NextIndexRace ==
    \/ Sends(Tasks, {1, 2}, MaxRaceMsgs)
    \/ Pipeline(Tasks)
    \/ Acks(Tasks, {2})

SpecIndexRace == Init /\ [][NextIndexRace]_vars

\* sends by users 1 and 2 whose store calls and membership lookups may fail,
\* and one streaming connection
NextFaults ==
    \/ Sends({1}, {1, 2}, MaxLiveMsgs)
    \/ Pipeline({1})
    \/ Faults({1})
    \/ Streams({1})

SpecFaults == Init /\ [][NextFaults]_vars

\* one send at a time by users 1 and 2, any statement of set_read_index may fail
NextIndexFaults ==
    \/ Sends({1}, {1, 2}, MaxLiveMsgs)
    \/ Pipeline({1})
    \/ IndexFaults({1})

SpecIndexFaults == Init /\ [][NextIndexFaults]_vars

\* two handlers at a time whose store calls and membership lookups may fail
NextFaultsRace ==
    \/ Sends(Tasks, {1, 2}, MaxLiveMsgs)
    \/ Pipeline(Tasks)
    \/ Faults(Tasks)

SpecFaultsRace == Init /\ [][NextFaultsRace]_vars

\* sends by user 2, a member who is muted and unmuted, and group sends by
\* user 3, who is not in the group, accepted or turned down, while another
\* request deletes the group; one streaming connection
NextGroupAuth ==
    \/ Sends({1}, {2}, MaxLiveMsgs)
    \/ Refusals({1}, {2, 3})
    \/ Pipeline({1})
    \/ Forbids({1}, {2})
    \/ Deleting({2})
    \/ Streams({1})

SpecGroupAuth == Init /\ [][NextGroupAuth]_vars

\* user 1 logging in and out, renewing and changing the password, on any
\* number of devices and two requests at a time, while time passes
NextAuth == TokenApi(Tasks, {1})

SpecAuth == Init /\ [][NextAuth]_vars

\* friend requests of user 1 and their reviews by anybody, two requests at a
\* time
NextFriend == FriendApi(Tasks, {1})

SpecFriend == Init /\ [][NextFriend]_vars

\* history queries and batch lookups, failing or not, over a store written
\* earlier
NextStored ==
    \/ \E req \in StoredReqs, io_err \in BOOLEAN : history(req, io_err)
    \/ \E mids \in StoredMids : lookup(mids)
    \/ \E io_err \in BOOLEAN : lookup_get(io_err)

SpecStored == InitStored /\ [][NextStored]_vars

\* the runs in which a started handler runs on and the connection's event
\* loop takes the events that are ready for it
SpecLive ==
    /\ Init
    /\ [][NextLive]_vars
    /\ WF_vars(Pipeline({1}))
    /\ WF_vars(event_loop_recv(1))

(***************************************************************************)
(* Properties of the store and of history queries.                        *)
(***************************************************************************)
\* C1: the ids send_msg returned are strictly increasing in the order the
\* appends took effect, so no id is returned twice.
C1_IdsStrictlyIncreasing ==
    \A i, j \in 1..Len(sent) : i < j => sent[i].mid < sent[j].mid

\* two sends overlapped: a DM and a group message were appended, and one
\* handler is still before its publish while a later append already happened
C1_Witness ==
    /\ \E i, j \in 1..Len(sent) :
          /\ sent[i].payload.target.kind = "User"
          /\ sent[j].payload.target.kind = "Group"
    /\ \E t \in Tasks : tasks[t].pc = "publish" /\ tasks[t].mid < msg_db.seq

\* whether a sent payload belongs to the conversation a history request names
SameConversation(payload, req) ==
    IF req.kind = "User"
    THEN /\ payload.target.kind = "User"
         /\ {payload.from_uid, payload.target.id} = {req.a, req.b}
    ELSE /\ payload.target.kind = "Group"
         /\ payload.target.id = req.a

\* history requests with every cursor and a limit that cuts nothing off
ProbeReqs ==
    {[r EXCEPT !.before = b] : r \in HistoryReqs({MaxMsgs}), b \in 0..msg_db.seq}

\* C2: every message a history query returns was sent to the conversation the
\* query names: a DM is returned for its own pair only, a group message for
\* its own group only.
C2_PartitionIsolation ==
    \A req \in ProbeReqs :
        \A m \in SeqRange(get_history_msg(msg_db, req)) :
            \E e \in SeqRange(sent) :
                /\ e.mid = m.mid
                /\ e.payload = m.payload
                /\ SameConversation(e.payload, req)

\* the pairs 1-2 and 2-3, which share user 2, and group 1 hold one message each
C2_Witness ==
    /\ Len(get_history_msg(msg_db, HistoryMsgUser(1, 2, NoMid, MaxMsgs))) = 1
    /\ Len(get_history_msg(msg_db, HistoryMsgUser(2, 3, NoMid, MaxMsgs))) = 1
    /\ Len(get_history_msg(msg_db, HistoryMsgGroup(1, NoMid, MaxMsgs))) = 1

\* how many DMs of the pair of sent[i] were appended at or after it
DmRank(i) ==
    Cardinality({j \in 1..Len(sent) :
        /\ sent[j].payload.target.kind = "User"
        /\ {sent[j].payload.from_uid, sent[j].payload.target.id}
              = {sent[i].payload.from_uid, sent[i].payload.target.id}
        /\ sent[j].mid >= sent[i].mid})

\* C3: a DM appended by send_to_dm(A, B) is returned by the history query of
\* (B, A) and by that of (A, B), without a cursor, for every limit that
\* reaches it, whether or not a subscriber was connected when it was sent.
C3_DmSymmetry ==
    \A i \in 1..Len(sent) :
        sent[i].payload.target.kind = "User" =>
            LET A == sent[i].payload.from_uid
                B == sent[i].payload.target.id
                m == ChatMessage(sent[i].mid, sent[i].payload)
            IN \A N \in DmRank(i)..Len(sent) :
                /\ m \in SeqRange(get_history_msg(msg_db, HistoryMsgUser(B, A, NoMid, N)))
                /\ m \in SeqRange(get_history_msg(msg_db, HistoryMsgUser(A, B, NoMid, N)))

\* the same pair exchanged DMs in both directions and both handlers returned:
\* one event found no subscriber and was dropped, the other one was accepted
C3_Witness ==
    /\ \A t \in Tasks : tasks[t].pc = "idle"
    /\ \E i, j \in 1..Len(sent) :
        /\ sent[i].payload.target.kind = "User"
        /\ sent[j].payload.target.kind = "User"
        /\ sent[i].payload.from_uid = sent[j].payload.target.id
        /\ sent[j].payload.from_uid = sent[i].payload.target.id
        /\ \A k \in 1..Len(hub) : hub[k].message.mid # sent[i].mid
        /\ \E k \in 1..Len(hub) : hub[k].message.mid = sent[j].mid

\* C4: a walk that fetches batches of limit k, each with the oldest id of the
\* previous batch as cursor, until a batch is empty, has collected what one
\* fetch without cursor and limit returns, if nothing was sent meanwhile.
C4_PaginationRoundTrip ==
    (page.st = "done" /\ page.seq = msg_db.seq) =>
        page.acc = get_history_msg(msg_db,
                       [page.req EXCEPT !.before = NoMid, !.limit = Len(msg_db.log)])

\* a finished walk of three messages in batches of two, the last batch partial
C4_Witness ==
    /\ page.st = "done"
    /\ page.seq = msg_db.seq
    /\ page.req.limit = 2
    /\ Len(page.acc) = 3

(***************************************************************************)
(* Properties of the fan-out to the streaming connections.                *)
(***************************************************************************)
\* a connection whose event loop runs and whose client is still there
Live(s) == sess[s].st = "connected" /\ sess[s].open

\* the events the receiver of connection s has taken so far
Consumed(s) == SubSeq(hub, sess[s].from + 1, sess[s].pos)

\* the ids of the consumed events that lie in the set keep, in order
ConsumedMids(s, keep) ==
    LET f == Filter(Consumed(s), keep)
    IN [i \in 1..Len(f) |-> f[i].message.mid]

\* C5: a connection of user U is pushed the frame of a published event
\* exactly if U is in the event's recipient set; every other event is
\* discarded.
C5_PushedIffTarget ==
    \A s \in Sessions :
        Live(s) =>
            sess[s].pushed =
                ConsumedMids(s, {e \in SeqRange(hub) : sess[s].uid \in e.targets})

\* the users related to the conversation of an event when its message was
\* sent: the two participants of a DM between friends, or the members of the
\* group as read for the recipient set
RelatedAtSend(e) ==
    LET p == e.message.payload
    IN IF p.target.kind = "User"
       THEN IF is_friend(friends, p.from_uid, p.target.id)
            THEN {p.from_uid, p.target.id}
            ELSE {}
       ELSE e.targets

\* C6: every user whose connection is pushed the event of a message was, when
\* the message was sent, a participant of the DM or a member of the group,
\* also when the membership changes while the send is in progress.
C6_NoDeliveryToNonMember ==
    \A s \in Sessions :
        \A e \in SeqRange(hub) :
            e.message.mid \in SeqRange(sess[s].pushed) => sess[s].uid \in RelatedAtSend(e)

\* the users a send in progress or finished is addressed to
Addressed(payload, uids) ==
    IF payload.target.kind = "User" THEN {payload.from_uid, payload.target.id} ELSE uids

\* C7: if a connection of U is subscribed when a message addressed to U is
\* about to be appended, then the connection is eventually pushed the event
\* with the id the send returned, unless it lags or its client disconnects.
C7_LiveDelivery ==
    \A s \in Sessions, i \in 1..MaxLiveMsgs :
        (/\ msg_db.seq + 1 = i
         /\ Live(s)
         /\ \E t \in Tasks :
               /\ tasks[t].pc = "send_msg"
               /\ sess[s].uid \in Addressed(TaskPayload(t), tasks[t].uids))
        ~> (\/ ~Live(s)
            \/ /\ Len(sent) >= i
               /\ sent[i].mid \in SeqRange(sess[s].pushed))

\* a connection that was subscribed before the second message was appended
\* has been pushed its event, the sender being another user
C7_Witness ==
    \E s \in Sessions :
        /\ Live(s)
        /\ Len(sent) >= 2
        /\ sess[s].from < Len(hub)
        /\ sent[2].payload.from_uid # sess[s].uid
        /\ sent[2].mid \in SeqRange(sess[s].pushed)

(***************************************************************************)
(* Properties of the read index.                                          *)
(***************************************************************************)
\* the row of user uid for the DM with, or the group, target
RowOf(table, uid, kind, target) ==
    {r \in table : /\ r.uid = uid
                   /\ IF kind = "User" THEN r.target_uid = target
                                       ELSE r.target_gid = target}

\* the acknowledged id of that row, None if there is no row
MidOf(table, uid, kind, target) ==
    IF RowOf(table, uid, kind, target) = {} THEN NoMid
    ELSE (CHOOSE r \in RowOf(table, uid, kind, target) : TRUE).mid

\* the task runs set_read_index at the end of a send, not for an acknowledgement
IsSend(t) == tasks[t].content # ""

\* C8: the latest message id of a read-index row never decreases, whatever
\* the interleaving of sends and acknowledgements.
C8_LatestMidNeverDecreases ==
    [][\A r \in read_index : \A q \in read_index' :
          (r.uid = q.uid /\ r.target_uid = q.target_uid /\ r.target_gid = q.target_gid)
              => q.latest_mid >= r.latest_mid]_vars

\* C9: when member S has sent message m to group G, the row of every other
\* member for G has latest_mid = m
\* and S as the sender of the latest message, with its acknowledged id as
\* before (None if the row is new), and the row of S for G has acknowledged
\* and latest id m.
C9_GroupSendReadIndex ==
    [][\A t \in Tasks :
          (IsSend(t) /\ tasks[t].pc = "ri_rest" /\ tasks'[t].pc = "idle") =>
              LET S == tasks[t].uid
                  G == tasks[t].target
                  m == tasks[t].mid
              IN /\ \A u \in tasks[t].uids \ {S} :
                       /\ Cardinality(RowOf(read_index', u, "Group", G)) = 1
                       /\ \A q \in RowOf(read_index', u, "Group", G) :
                             /\ q.latest_mid = m
                             /\ q.uid_of_latest_msg = S
                             /\ q.mid = MidOf(read_index, u, "Group", G)
                 /\ Cardinality(RowOf(read_index', S, "Group", G)) = 1
                 /\ \A q \in RowOf(read_index', S, "Group", G) :
                       q.mid = m /\ q.latest_mid = m]_vars

\* a member acknowledged a group message and another member sent a later one:
\* the row keeps the acknowledged id below the latest id
C9_Witness ==
    \E r \in read_index :
        /\ r.target_gid \in Groups
        /\ r.mid # NoMid
        /\ r.latest_mid > r.mid
        /\ r.uid_of_latest_msg # r.uid
        /\ \A t \in Tasks : tasks[t].pc = "idle"

\* C10: a DM send of m from A to B upserts exactly two rows: the row of A for
\* B gets acknowledged and latest id m; the row of B for A gets latest id m
\* and A as the sender of the latest message and keeps the acknowledged id it
\* had (None if the row is new).
C10_DmSendReadIndex ==
    [][\A t \in Tasks :
          (IsSend(t) /\ tasks[t].kind = "User") =>
              LET A == tasks[t].uid
                  B == tasks[t].target
                  m == tasks[t].mid
              IN /\ (tasks[t].pc = "ri_own" /\ tasks'[t].pc = "ri_peer") =>
                        /\ RowOf(read_index', A, "User", B) =
                              {[uid |-> A, target_uid |-> B, target_gid |-> NoId,
                                mid |-> m, latest_mid |-> m, uid_of_latest_msg |-> A]}
                        /\ read_index' \ RowOf(read_index', A, "User", B)
                              = read_index \ RowOf(read_index, A, "User", B)
                 /\ (tasks[t].pc = "ri_peer" /\ tasks'[t].pc = "idle") =>
                        /\ RowOf(read_index', B, "User", A) =
                              {[uid |-> B, target_uid |-> A, target_gid |-> NoId,
                                mid |-> MidOf(read_index, B, "User", A),
                                latest_mid |-> m, uid_of_latest_msg |-> A]}
                        /\ read_index' \ RowOf(read_index', B, "User", A)
                              = read_index \ RowOf(read_index, B, "User", A)]_vars

\* a user acknowledged a DM and the counterpart sent a later one: the row
\* keeps the acknowledged id below the latest id
C10_Witness ==
    \E r \in read_index :
        /\ r.target_uid \in Users
        /\ r.mid # NoMid
        /\ r.latest_mid > r.mid
        /\ r.uid_of_latest_msg = r.target_uid
        /\ \A t \in Tasks : tasks[t].pc = "idle"

\* C11: there is at most one read-index row per (user, target user) and at
\* most one per (user, target group), and every row has exactly one of the
\* two targets set: a repeated update of a pair changes its row in place.
C11_ReadIndexUnique ==
    /\ \A r, q \in read_index :
          (r.uid = q.uid /\ r.target_uid = q.target_uid /\ r.target_gid = q.target_gid)
              => r = q
    /\ \A r \in read_index : (r.target_uid = NoId) # (r.target_gid = NoId)

\* a send and an acknowledgement overlapped on the rows of one pair: the
\* acknowledging user's row was written by both and both handlers returned
C11_Witness ==
    /\ \A t \in Tasks : tasks[t].pc = "idle"
    /\ \E r \in read_index :
          /\ r.target_uid # NoId
          /\ r.mid # NoMid
          /\ r.uid_of_latest_msg = r.target_uid
    /\ Cardinality(read_index) = 2

(***************************************************************************)
(* Properties of the unread descriptor.                                   *)
(***************************************************************************)
\* the sent messages of the conversation a read-index row stands for
SentInConversationOf(ri) ==
    {e \in SeqRange(sent) :
        IF ri.target_gid = NoId
        THEN /\ e.payload.target.kind = "User"
             /\ {e.payload.from_uid, e.payload.target.id} = {ri.uid, ri.target_uid}
        ELSE /\ e.payload.target.kind = "Group"
             /\ e.payload.target.id = ri.target_gid}

\* the messages of the row's conversation after the acknowledged one; none
\* if the acknowledged id is not an id of that conversation
UnreadMessagesOf(ri) ==
    IF \E e \in SentInConversationOf(ri) : e.mid = ri.mid
    THEN {e \in SentInConversationOf(ri) : e.mid > ri.mid}
    ELSE {}

\* the row has exactly one of target user and target group set
OneTarget(ri) == (ri.target_uid = NoId) # (ri.target_gid = NoId)

\* C12: for a row whose acknowledged id is X, count_unread_msg reports the
\* number N of messages of the row's conversation with an id above X, as a
\* decimal string, if N >= 1, and reports nothing if N = 0, which includes
\* an empty conversation and an X that is not an id of the conversation.
C12_UnreadCount ==
    [][unread' # unread =>
          LET ri == unread'[1].ri
              out == unread'[1].out
              N == Cardinality(UnreadMessagesOf(ri))
          IN (OneTarget(ri) /\ ri.mid # NoMid) =>
                 /\ N >= 1 => out = Some(DecimalString(N))
                 /\ N = 0 => out = None]_vars

\* C13: for a row without an acknowledged id count_unread_msg reports the
\* "all unread" sentinel whatever the store holds, also for an empty
\* conversation; for a row with neither or both targets set it reports nothing.
C13_NeverReadSentinel ==
    [][unread' # unread =>
          LET ri == unread'[1].ri
              out == unread'[1].out
          IN /\ (OneTarget(ri) /\ ri.mid = NoMid) => out = Some(<<"a", "l", "l">>)
             /\ ~OneTarget(ri) => out = None]_vars

\* a never-acknowledged row of a group without messages is reported "all"
C13_Witness ==
    /\ unread # None
    /\ unread[1].ri.target_gid = 1
    /\ unread[1].ri.target_uid = NoId
    /\ unread[1].ri.mid = NoMid
    /\ unread[1].out = Some(<<"a", "l", "l">>)
    /\ \A e \in SeqRange(sent) : e.payload.target.kind = "User"

(***************************************************************************)
(* Properties of the hub and of the connections' event loops.             *)
(***************************************************************************)
\* the history of the conversation a payload was sent to, without cursor
HistoryOf(db, payload) ==
    get_history_msg(db,
        IF payload.target.kind = "User"
        THEN HistoryMsgUser(payload.from_uid, payload.target.id, NoMid, Len(db.log))
        ELSE HistoryMsgGroup(payload.target.id, NoMid, Len(db.log)))

\* C14: the publish of a send can always be taken and never fails the send:
\* send_msg goes on to return the id of the appended message, the message is
\* in the conversation's history, and with no receiver subscribed the event
\* is dropped.
C14_PublishNeverFailsSend ==
    /\ [](\A t \in Tasks : tasks[t].pc = "publish" => ENABLED send_msg_publish(t))
    /\ [][\A t \in Tasks :
             (tasks[t].pc = "publish" /\ tasks'[t] # tasks[t]) =>
                 /\ tasks'[t].pc = "ri_own"
                 /\ tasks'[t].mid = tasks[t].mid
                 /\ \E i \in 1..Len(sent) :
                       /\ sent[i].mid = tasks[t].mid
                       /\ sent[i].payload = TaskPayload(t)
                 /\ ChatMessage(tasks[t].mid, TaskPayload(t))
                        \in SeqRange(HistoryOf(msg_db', TaskPayload(t)))
                 /\ Receivers = {} => hub' = hub]_vars

\* a send was published while no connection was subscribed: the hub is
\* empty, send_msg has returned the id and the message is in the history
C14_Witness ==
    \E t \in Tasks :
        /\ IsSend(t)
        /\ tasks[t].pc = "ri_own"
        /\ Receivers = {}
        /\ hub = <<>>
        /\ ChatMessage(tasks[t].mid, TaskPayload(t))
               \in SeqRange(HistoryOf(msg_db, TaskPayload(t)))

\* C15: a connection is pushed only events that were published after its
\* subscription was created, never an earlier one.
C15_NoHistoricalReplay ==
    \A s \in Sessions :
        \A i \in 1..Len(sess[s].pushed) :
            \E k \in (sess[s].from + 1)..Len(hub) :
                hub[k].message.mid = sess[s].pushed[i]

\* a connection that subscribed after an event addressed to its user was
\* published has been pushed a later event
C15_Witness ==
    \E s \in Sessions :
        /\ sess[s].from >= 1
        /\ sess[s].uid \in hub[1].targets
        /\ sess[s].pushed # <<>>

\* the position of the event of message mid in the order of publication
PublishIndex(mid) == CHOOSE k \in 1..Len(hub) : hub[k].message.mid = mid

\* C16: two events pushed to the same connection are pushed in the order in
\* which they were published to the hub.
C16_FifoPerSubscriber ==
    \A s \in Sessions :
        \A i, j \in 1..Len(sess[s].pushed) :
            i < j => PublishIndex(sess[s].pushed[i]) < PublishIndex(sess[s].pushed[j])

\* a connection has been pushed two events
C16_Witness ==
    \E s \in Sessions : Len(sess[s].pushed) >= 2

\* C17: every published event is pushed to a connection at most once, also
\* when the channel overflows for a receiver that has fallen behind.
C17_AtMostOnce ==
    \A s \in Sessions :
        \A i, j \in 1..Len(sess[s].pushed) :
            i # j => sess[s].pushed[i] # sess[s].pushed[j]

\* one connection has been pushed events while the channel overflowed for
\* another one, which was more than HubCapacity events behind at its receive
C17_Witness ==
    \E s, q \in Sessions :
        /\ Len(sess[s].pushed) >= 2
        /\ sess[q].st = "terminated"
        /\ Len(hub) - sess[q].pos > HubCapacity

\* C18: a connection that has fallen behind by more than the channel's
\* capacity, with its client still there, stays connected at its next step.
C18_LagDoesNotTerminate ==
    [][\A s \in Sessions :
          (Live(s) /\ Len(hub) - sess[s].pos > HubCapacity)
              => sess'[s].st = "connected"]_vars

\* the highest message id a connection has been pushed
HighestPushed(s) ==
    CHOOSE h \in SeqRange(sess[s].pushed) : \A x \in SeqRange(sess[s].pushed) : x <= h

\* the ids the user's feed returns above the cursor, without limit
FeedMidsAfter(user_id, after) ==
    LET feed == fetch_user_messages_after(msg_db, user_id, after, Len(msg_db.log))
    IN {feed[i][1] : i \in 1..Len(feed)}

\* C19: when a connection of user U has ended after having been pushed
\* events up to the highest message id h, the feed of U above h holds every
\* message addressed to U whose event was published since the connection
\* subscribed and was not pushed to it.
C19_ResyncComplete ==
    \A s \in Sessions :
        (sess[s].st = "terminated" /\ sess[s].pushed # <<>>) =>
            \A k \in (sess[s].from + 1)..Len(hub) :
                (/\ sess[s].uid \in hub[k].targets
                 /\ hub[k].message.mid \notin SeqRange(sess[s].pushed))
                    => hub[k].message.mid \in FeedMidsAfter(sess[s].uid, HighestPushed(s))

\* C20: once the client of a connection has gone away, the connection's
\* event loop eventually terminates, and with it its subscription, also if
\* no event is published any more.
C20_BridgeEndsAfterDisconnect ==
    \A s \in Sessions :
        (sess[s].st = "connected" /\ ~sess[s].open) ~> (sess[s].st = "terminated")

\* a connection whose client went away has terminated although no event was
\* ever published
C20_Witness ==
    \E s \in Sessions :
        /\ sess[s].st = "terminated"
        /\ ~sess[s].open
        /\ hub = <<>>
        /\ s \notin Receivers

(***************************************************************************)
(* Properties of failing store calls and lookups.                         *)
(***************************************************************************)
\* the replies of every history query, with every cursor
AllHistory(db) == [req \in ProbeReqs |-> get_history_msg(db, req)]

\* C21: a send whose store append fails ends with an error for the caller
\* and changes neither the store, nor the reply of any history query, nor
\* the hub, nor a read-index row; every record of the store and every
\* event of the hub belongs to a send whose append succeeded.
C21_FailedAppendInvisible ==
    /\ [](/\ Len(msg_db.log) = Len(sent)
          /\ \A k \in 1..Len(hub) :
                \E i \in 1..Len(sent) : sent[i].mid = hub[k].message.mid)
    /\ [][\A t \in Tasks :
             /\ (tasks[t].pc = "send_msg" /\ tasks'[t] # tasks[t] /\ Len(sent') = Len(sent)) =>
                    /\ tasks'[t].pc = "MsgErr"
                    /\ msg_db' = msg_db
                    /\ AllHistory(msg_db') = AllHistory(msg_db)
                    /\ hub' = hub
                    /\ read_index' = read_index
             /\ (tasks[t].pc = "MsgErr" /\ tasks'[t] # tasks[t]) =>
                    /\ tasks'[t] = IdleTask
                    /\ msg_db' = msg_db
                    /\ hub' = hub
                    /\ read_index' = read_index]_vars

\* the append of a group send has failed while a connection was subscribed
\* and the store held an earlier message
C21_Witness ==
    \E t \in Tasks :
        /\ tasks[t].pc = "MsgErr"
        /\ tasks[t].kind = "Group"
        /\ Receivers # {}
        /\ Len(sent) >= 1

\* C22: a failed store call does not poison the store: the mutex can be
\* locked in every state, a handler that has reached its append can always
\* append and then holds the next id, whatever failed before it, and every
\* message appended so far stays in the history of its conversation.
C22_NoStorePoisoning ==
    /\ [](/\ Lockable(msg_db)
          /\ \A t \in Tasks : tasks[t].pc = "send_msg" => ENABLED send_msg_append(t)
          /\ \A i \in 1..Len(sent) :
                ChatMessage(sent[i].mid, sent[i].payload)
                    \in SeqRange(HistoryOf(msg_db, sent[i].payload)))
    /\ [][\A t \in Tasks :
             (tasks[t].pc = "send_msg" /\ tasks'[t].pc = "publish") =>
                 /\ tasks'[t].mid = msg_db.seq + 1
                 /\ Len(sent') = Len(sent) + 1]_vars

\* the append of one handler has failed, the store holds an earlier message,
\* and another handler has reached its append
C22_Witness ==
    \E a, b \in Tasks :
        /\ tasks[a].pc = "MsgErr"
        /\ tasks[b].pc = "send_msg"
        /\ Len(sent) >= 1
        /\ ENABLED send_msg_append(b)

\* C23: a group send whose lookup of the recipients fails ends with an error
\* for the caller before anything is appended or published: the store, the
\* hub and the read index are as before; a lookup that does not fail hands
\* the members of the group to the append.
C23_RecipientLookupFailure ==
    [][\A t \in Tasks :
          /\ (tasks[t].pc = "get_uids" /\ tasks'[t] # tasks[t]) =>
                 /\ tasks'[t].pc \in {"DbErr", "send_msg"}
                 /\ tasks'[t].pc = "send_msg" =>
                        tasks'[t].uids = get_uids(user_group_rel, tasks[t].target)
                 /\ msg_db' = msg_db
                 /\ hub' = hub
                 /\ read_index' = read_index
          /\ (tasks[t].pc = "DbErr" /\ tasks[t].mid = NoMid /\ tasks'[t] # tasks[t]) =>
                 /\ tasks'[t] = IdleTask
                 /\ msg_db' = msg_db
                 /\ hub' = hub
                 /\ read_index' = read_index]_vars

\* the lookup of a group send has failed while a connection was subscribed
\* and the group's partition held an earlier message
C23_Witness ==
    \E t \in Tasks :
        /\ tasks[t].pc = "DbErr"
        /\ tasks[t].mid = NoMid
        /\ Receivers # {}
        /\ \E e \in SeqRange(msg_db.log) : e.key = GroupKey(tasks[t].target)

(***************************************************************************)
(* Properties of history queries and lookups over foreign records.        *)
(***************************************************************************)
\* the records of the store a call ranges over, in the store's order for a
\* history query and in the order of the ids for a batch lookup
RawRange(r) ==
    IF r.op = "history"
    THEN IF r.req.kind = "User"
         THEN fetch_dm_messages_before(msg_db, r.req.a, r.req.b, r.req.before, r.req.limit)
         ELSE fetch_group_messages_before(msg_db, r.req.a, r.req.before, r.req.limit)
    ELSE LET stored == SelectSeq(r.mids, LAMBDA m : get(msg_db, m) # None)
         IN [i \in 1..Len(stored) |-> <<stored[i], get(msg_db, stored[i])[1]>>]

\* C24: a history query or batch lookup none of whose store calls fails
\* returns the decodable records of its range, each once, in the order of
\* the range and under its own id, whatever undecodable records lie between.
C24_SkipOnDecodeFailure ==
    (reply # None /\ Returned /\ ~reply[1].failed) =>
        LET dec == SelectSeq(RawRange(reply[1]), LAMBDA e : Decodable(e[2]))
            out == reply[1].out
        IN /\ Len(out) = Len(dec)
           /\ \A i \in 1..Len(dec) :
                 /\ out[i].mid = dec[i][1]
                 /\ out[i].payload = from_slice(dec[i][2])

\* a history query over three records of a pair, the middle one not
\* decodable, has returned the newest and the oldest
C24_Witness ==
    /\ reply # None
    /\ reply[1].op = "history"
    /\ ~reply[1].failed
    /\ Len(RawRange(reply[1])) = 3
    /\ ~Decodable(RawRange(reply[1])[2][2])
    /\ Len(reply[1].out) = 2
    /\ reply[1].out[1].mid = 3
    /\ reply[1].out[2].mid = 1

\* what a call returns over an empty store when no store call fails
EmptyReply(r) ==
    IF r.op = "history"
    THEN get_history_msg_io([seq |-> 0, log |-> <<>>, poisoned |-> FALSE], r.req, FALSE)
    ELSE get_by_mids([seq |-> 0, log |-> <<>>, poisoned |-> FALSE], r.mids,
                     [i \in 1..Len(r.mids) |-> FALSE])

\* C25: a history query or batch lookup one of whose store calls failed
\* returns something else than the same call does over an empty store.
C25_StoreErrorsNotSwallowed ==
    (reply # None /\ Returned /\ reply[1].failed) => reply[1].out # EmptyReply(reply[1])

(***************************************************************************)
(* Frame and order of the operations.                                     *)
(***************************************************************************)
\* the store as it was when it held its first k records

\* the descriptor of the row ri over the messages that were sent so far
DescriptorOf(ri) ==
    IF ~OneTarget(ri) THEN None
    ELSE IF ri.mid = NoMid THEN Some(<<"a", "l", "l">>)
    ELSE IF UnreadMessagesOf(ri) = {} THEN None
    ELSE Some(DecimalString(Cardinality(UnreadMessagesOf(ri))))

\* C26: a call of count_unread_msg changes neither the store, nor a
\* read-index row, nor the hub, and the descriptor it returns is determined
\* by the row and by the messages stored when the call is made, so that
\* calls for a row in the same state return the same descriptor, also while
\* a send is in progress.
C26_CountUnreadReadOnly ==
    [][unread' # unread =>
          /\ msg_db' = msg_db
          /\ read_index' = read_index
          /\ hub' = hub
          /\ unread'[1].out = DescriptorOf(unread'[1].ri)]_vars

\* the read-index rows of the participants for the conversation of a message:
\* both rows of a DM, the row of every recipient for a group
ParticipantRows(table, e) ==
    LET p == e.message.payload
    IN IF p.target.kind = "User"
       THEN {RowOf(table, p.from_uid, "User", p.target.id),
             RowOf(table, p.target.id, "User", p.from_uid)}
       ELSE {RowOf(table, u, "Group", p.target.id) : u \in e.targets}

\* C27: whenever a connection has been pushed the event of message m, m is
\* in the store and each participant has a read-index row for the
\* conversation with latest_mid >= m: the upserts precede the publish.
C27_SendStepOrder ==
    \A s \in Sessions :
        \A e \in SeqRange(hub) :
            e.message.mid \in SeqRange(sess[s].pushed) =>
                /\ get(msg_db, e.message.mid) # None
                /\ \A rows \in ParticipantRows(read_index, e) :
                      \E r \in rows : r.latest_mid >= e.message.mid

\* the receiver of connection s is more than the channel's capacity behind:
\* its next recv() returns an error
Lagged(s) == Len(hub) - sess[s].pos > HubCapacity

\* C28: a connected event loop terminates only at a receive error or when
\* a frame cannot be handed over because the client is gone; while the
\* client is there and the receiver has not lagged it stays connected at
\* every step; taking an event that is not kept leaves it connected and
\* pushes nothing; a terminated loop never changes again, so nothing is
\* pushed after termination.
C28_BridgeStateMachine ==
    [][\A s \in Sessions :
          /\ (sess[s].st = "connected" /\ sess'[s].st # "connected") =>
                 /\ sess'[s].st = "terminated"
                 /\ Lagged(s) \/ ~sess[s].open
          /\ (sess[s].st = "connected" /\ sess'[s].pos # sess[s].pos
                 /\ ~event_loop_keeps(hub[sess[s].pos + 1], sess[s].uid)) =>
                 /\ sess'[s].st = "connected"
                 /\ sess'[s].pushed = sess[s].pushed
          /\ sess'[s].pushed # sess[s].pushed =>
                 /\ Live(s)
                 /\ sess'[s].st = "connected"
                 /\ event_loop_keeps(hub[sess'[s].pos], sess[s].uid)
          /\ sess[s].st = "terminated" => sess'[s] = sess[s]]_vars

\* a connection has discarded an event, its client has gone away, and it
\* has terminated at the next event it kept, which was not pushed
C28_Witness ==
    \E s \in Sessions :
        /\ sess[s].st = "terminated"
        /\ ~sess[s].open
        /\ sess[s].pos >= sess[s].from + 2
        /\ ~event_loop_keeps(hub[sess[s].pos - 1], sess[s].uid)
        /\ event_loop_keeps(hub[sess[s].pos], sess[s].uid)
        /\ hub[sess[s].pos].message.mid \notin SeqRange(sess[s].pushed)

\* the records of the partition of group gid
GroupPartition(db, gid) == {e \in SeqRange(db.log) : e.key = GroupKey(gid)}

\* C29: the append of a group send adds one record to the group's partition
\* and none elsewhere, however many members the group has; the lookup before
\* it reads the members of the group, and the event published for the send
\* carries exactly the ids that lookup returned; the event of a DM carries
\* exactly the ids of the sender and of the target.
C29_OneAppendAndRecipients ==
    [][\A t \in Tasks :
          /\ (tasks[t].pc = "get_uids" /\ tasks'[t].pc = "send_msg") =>
                 tasks'[t].uids = {r.user_id : r \in {x \in user_group_rel :
                                                        x.group_id = tasks[t].target}}
          /\ (tasks[t].pc = "send_msg" /\ tasks'[t].pc = "publish" /\ tasks[t].kind = "Group") =>
                 /\ Len(msg_db'.log) = Len(msg_db.log) + 1
                 /\ Cardinality(GroupPartition(msg_db', tasks[t].target))
                        = Cardinality(GroupPartition(msg_db, tasks[t].target)) + 1
          /\ (tasks[t].pc = "publish" /\ tasks'[t].pc # "publish" /\ Receivers # {}) =>
                 /\ Len(hub') = Len(hub) + 1
                 /\ hub'[Len(hub')].message = ChatMessage(tasks[t].mid, TaskPayload(t))
                 /\ hub'[Len(hub')].targets =
                        IF tasks[t].kind = "Group" THEN tasks[t].uids
                        ELSE {tasks[t].uid, tasks[t].target}]_vars

\* the event of a message to group 1 carries the two members the group had
\* when it was sent, the partition holds one record, and a member has left
\* since
C29_Witness ==
    /\ Len(hub) = 1
    /\ hub[1].message.payload.target.kind = "Group"
    /\ hub[1].targets = {1, 2}
    /\ Cardinality(GroupPartition(msg_db, 1)) = 1
    /\ get_uids(user_group_rel, 1) = {2}

\* history requests with every cursor and every limit up to MaxLimit
CursorReqs ==
    {[r EXCEPT !.before = b] : r \in HistoryReqs(1..MaxLimit), b \in 0..msg_db.seq}

\* the sent messages of the conversation a request names, below its cursor
Eligible(req) ==
    {e \in SeqRange(sent) :
        /\ SameConversation(e.payload, req)
        /\ (req.before = NoMid \/ e.mid < req.before)}

\* C30: a history query of a DM pair or a group returns at most limit
\* messages, all of the queried conversation and below the cursor if one is
\* given, in strictly descending order of their ids, and they are the
\* newest such messages: as many as the limit allows, none of them older
\* than a message that was left out.
C30_FetchBeforeContract ==
    \A req \in CursorReqs :
        LET out == get_history_msg(msg_db, req)
        IN /\ Len(out) = Min2(req.limit, Cardinality(Eligible(req)))
           /\ \A i \in 1..Len(out) :
                 \E e \in Eligible(req) : e.mid = out[i].mid /\ e.payload = out[i].payload
           /\ \A i, j \in 1..Len(out) : i < j => out[i].mid > out[j].mid
           /\ \A e \in Eligible(req) :
                 (\A i \in 1..Len(out) : out[i].mid # e.mid) =>
                     \A i \in 1..Len(out) : e.mid < out[i].mid

\* the DM of users 1 and 2 holds the messages 1, 2 and 3; the query below
\* the cursor 3 with limit 1 returns message 2 and leaves out message 1
C30_Witness ==
    /\ Len(get_history_msg(msg_db, HistoryMsgUser(1, 2, NoMid, 3))) = 3
    /\ Len(get_history_msg(msg_db, HistoryMsgUser(2, 1, 3, 1))) = 1
    /\ get_history_msg(msg_db, HistoryMsgUser(2, 1, 3, 1))[1].mid = 2

(***************************************************************************)
(* Order of delivery and consistency of the read index.                   *)
(***************************************************************************)
\* the sent message with the id mid
SentOf(mid) == CHOOSE e \in SeqRange(sent) : e.mid = mid

\* the conversation a payload was sent to
ConversationOf(payload) ==
    IF payload.target.kind = "User"
    THEN DmKey(payload.from_uid, payload.target.id)
    ELSE GroupKey(payload.target.id)

\* C31: two messages of the same conversation that were both pushed to a
\* connection were pushed in the order of their ids, also when their sends
\* ran at the same time.
C31_ConversationOrder ==
    \A s \in Sessions :
        \A i, j \in 1..Len(sess[s].pushed) :
            (/\ i < j
             /\ ConversationOf(SentOf(sess[s].pushed[i]).payload)
                   = ConversationOf(SentOf(sess[s].pushed[j]).payload))
                => sess[s].pushed[i] < sess[s].pushed[j]

\* C32: in every read-index row the sender recorded for the latest message
\* is the sender of the stored message whose id is the row's latest_mid.
C32_LatestSenderConsistent ==
    \A r \in read_index :
        \E e \in SeqRange(sent) :
            /\ e.mid = r.latest_mid
            /\ e.payload.from_uid = r.uid_of_latest_msg

\* C33: in every read-index row with an acknowledged id, that id is not
\* above the row's latest_mid.
C33_AckBoundedByLatest ==
    \A r \in read_index : r.mid # NoMid => r.mid <= r.latest_mid

\* C34: when set_read_index returns success at the end of a DM send of m
\* from A to B, the row of A for B has acknowledged and latest id m; a
\* failed upsert of that row does not go unreported.
C34_OwnRowAfterSuccess ==
    [][\A t \in Tasks :
          (IsSend(t) /\ tasks[t].kind = "User"
              /\ tasks[t].pc = "ri_peer" /\ tasks'[t].pc = "idle") =>
              \E r \in RowOf(read_index', tasks[t].uid, "User", tasks[t].target) :
                  r.mid = tasks[t].mid /\ r.latest_mid = tasks[t].mid]_vars

\* C35: when set_read_index has returned an error for message m, no
\* read-index row shows m: the rows are as they were before the call.
C35_ReadIndexAllOrNothing ==
    \A t \in Tasks :
        (tasks[t].pc = "DbErr" /\ tasks[t].mid # NoMid) =>
            \A r \in read_index : r.latest_mid # tasks[t].mid

\* C36: a friend edge between requester R and target T appears only when T
\* reviews R's request with status APPROVE: a review with REJECT or WAIT and
\* a review attempt by another user add no edge, and the attempt of another
\* user leaves the request rows as they are.
C36_FriendshipOnlyByApproval ==
    [][/\ (friends' # friends) =>
              \E t \in Tasks :
                  /\ calls[t].pc = "set_friend_ship"
                  /\ calls'[t].pc = "Ok"
                  /\ calls[t].status = "APPROVE"
                  /\ calls[t].uid = calls[t].row[1].target_id
                  /\ friends' = friends \union
                        {{calls[t].row[1].request_id, calls[t].row[1].target_id}}
       /\ \A t \in Tasks :
              (calls[t].pc = "idle" /\ calls'[t].pc = "FriendErr") =>
                  (friends' = friends /\ friend_request' = friend_request)
       /\ \A t \in Tasks :
              (calls[t].pc = "FriendErr" /\ calls'[t] # calls[t]) =>
                  (friends' = friends /\ friend_request' = friend_request)]_vars

\* C37: a group send enters send_msg only if check_status found its sender
\* in the group and not forbidden, group messages are appended and published
\* only by such a send, and a send that is turned down returns the GroupErr
\* with the store, the hub and the read index as they were.
C37_GroupSendAuthorized ==
    [][/\ \A t \in Tasks :
            /\ (tasks[t].pc = "idle" /\ tasks'[t].pc = "get_uids") =>
                  /\ check_status(user_group_rel, tasks'[t].target, tasks'[t].uid).in_group
                  /\ ~check_status(user_group_rel, tasks'[t].target, tasks'[t].uid).forbid
            /\ (tasks[t].pc = "idle" /\ tasks'[t].pc = "GroupErr") =>
                  /\ \/ ~check_status(user_group_rel, tasks'[t].target, tasks'[t].uid).in_group
                     \/ check_status(user_group_rel, tasks'[t].target, tasks'[t].uid).forbid
                  /\ UNCHANGED <<msg_db, hub, read_index>>
            /\ (tasks[t].pc = "GroupErr" /\ tasks'[t] # tasks[t]) =>
                  /\ tasks'[t] = IdleTask
                  /\ UNCHANGED <<msg_db, hub, read_index>>
            /\ (tasks[t].pc = "idle" /\ tasks'[t].kind = "Group" /\ tasks'[t].content # "") =>
                  tasks'[t].pc \in {"get_uids", "GroupErr"}
       /\ (msg_db'.seq # msg_db.seq /\ msg_db'.log[msg_db'.seq].key[1] = "group") =>
              \E t \in Tasks : /\ tasks[t].pc = "send_msg" /\ tasks[t].kind = "Group"
                               /\ tasks'[t].pc = "publish"
                               /\ msg_db'.log[msg_db'.seq].key = GroupKey(tasks[t].target)
       /\ (hub' # hub /\ Len(hub') > Len(hub)) =>
              \E t \in Tasks : tasks[t].pc = "publish" /\ tasks'[t].pc = "ri_own"]_vars

\* a muted member's send was turned down after messages were stored and
\* published
C37_Witness ==
    /\ tasks[1].pc = "GroupErr"
    /\ check_status(user_group_rel, tasks[1].target, tasks[1].uid).in_group
    /\ check_status(user_group_rel, tasks[1].target, tasks[1].uid).forbid
    /\ \E i \in 1..Len(msg_db.log) : msg_db.log[i].key = GroupKey(tasks[1].target)
    /\ hub # <<>>

\* C38: after a user logged out or changed the password, and until the
\* user logs in again, the login check accepts no token of that user.
C38_LogoutEndsSession ==
    \A u \in ended : \A jwt \in TokensOf(u) : ~Accepted(jwt)

\* C39: a token handed out before a logout or a password change of its user
\* is never accepted by the login check again, whoever is logged in.
C39_RevocationPermanent ==
    \A jwt \in revoked : ~Accepted(jwt)

====
